---- MODULE Spec2Model ----
(***************************************************************************)
(* Stream manager of pkappa2 (package manager) and the converter cache     *)
(* file (package converters).                                              *)
(*                                                                         *)
(* The manager is a single-writer actor: every closure sent on mgr.jobs    *)
(* runs atomically on the scheduler goroutine, so every closure is one     *)
(* action.  Background jobs (import, merge, tagging, conversion) are       *)
(* goroutines that hold a snapshot taken when they were started and post   *)
(* one completion closure; a job in flight is a record in `jobs`, and its  *)
(* completion closure is the action that removes the record.               *)
(*                                                                         *)
(* bitmask.LongBitmask values are modelled as sets of stream ids.          *)
(***************************************************************************)
EXTENDS Integers, Sequences, FiniteSets, TLC

\* ------------------------------------------------------------------ bounds
MaxStreamID == 2
MaxIdx == 4
MaxPcaps == 2
MaxViews == 2
MaxReleases == 2
MaxCalls == 3
MaxEnqueues == 102
MaxAttached == 2
MaxRecords == 3
MaxEvents == 3

Streams == 0 .. (MaxStreamID - 1)
IdxIds == 1 .. MaxIdx

\* ----------------------------------------------------------- small helpers
Max(S) == CHOOSE x \in S : \A y \in S : y <= x
Min(S) == CHOOSE x \in S : \A y \in S : x <= y

Range(q) == {q[k] : k \in DOMAIN q}

RECURSIVE SumOver(_, _)
SumOver(f, S) ==
  IF S = {} THEN 0
  ELSE LET x == CHOOSE y \in S : TRUE IN f[x] + SumOver(f, S \ {x})

SeqSum(q) == SumOver(q, DOMAIN q)

SubSeqFrom(q, k) == SubSeq(q, k, Len(q))

\* ----------------------------------------------- query features (package query)
FeatureFilterID == "id"
FeatureFilterData == "data"
FeatureFilterTimeAbsolute == "timeAbsolute"
FeatureFilterTimeRelative == "timeRelative"
\* any other predicate kind of the query language (port, host, protocol, ...)
FeatureFilterOther == "other"

\* A parsed tag definition: the FeatureSet of its conditions and, for an id
\* filter, the ids it lists.  Two definitions are the same string iff the
\* records are equal.
Def(mf, sf, mt, st, ids) ==
  [MainFeatures |-> mf, SubQueryFeatures |-> sf, MainTags |-> mt, SubQueryTags |-> st, ids |-> ids]

DefOther == Def({FeatureFilterOther}, {}, {}, {}, {})
DefData == Def({FeatureFilterData}, {}, {}, {}, {})
DefTimeAbsolute == Def({FeatureFilterTimeAbsolute}, {}, {}, {}, {})
\* The definition string UpdateTag builds for a mark from its matches, as the
\* sequence of its parts: the loop writes a comma before every id but the
\* one written while last is 0.
RECURSIVE markIDs(_, _)
markIDs(matches, last) ==
  LET rest == {s \in matches : s >= last}
  IN IF rest = {} THEN <<>>
     ELSE LET id == CHOOSE x \in rest : \A y \in rest : x <= y
          IN (IF last # 0 THEN <<",">> ELSE <<>>) \o <<id>> \o markIDs(matches, id + 1)

markDefinition(matches) ==
  IF matches = {} THEN <<"id:-1">> ELSE <<"id:">> \o markIDs(matches, 0)

\* an id filter: its string and the ids query.Parse reads from it
DefID(ids) ==
  [MainFeatures |-> {FeatureFilterID}, SubQueryFeatures |-> {}, MainTags |-> {},
   SubQueryTags |-> {}, ids |-> ids, text |-> markDefinition(ids)]
DefMainTag(r) == Def({}, {}, {r}, {}, {})
DefSubTag(r) == Def({}, {FeatureFilterOther}, {}, {r}, {})

TagNames == {"tag/a", "tag/b", "mark/m", "service/s"}
ConverterNames == {"c1", "c2", "c3", "c4"}

isMark(name) == name \in {"mark/m"}

referencedTags(t) == t.definition.MainTags \cup t.definition.SubQueryTags

\* ------------------------------------------------------------------- state
VARIABLES
  indexes,              \* mgr.indexes: sequence of index readers (ids of index files)
  usedIndexes,          \* mgr.usedIndexes: index -> lock count (0: no entry)
  nStreams,             \* mgr.nStreams
  nextStreamID,         \* mgr.nextStreamID
  nUnmergeableIndexes,  \* mgr.nUnmergeableIndexes
  allStreams,           \* mgr.allStreams
  mergeJobRunning, taggingJobRunning, converterJobRunning,
  importJobs,           \* mgr.importJobs: pending pcap filenames
  updatedStreamsDuringTaggingJob, addedStreamsDuringTaggingJob,
  streamsToConvert,     \* converter name -> work queue
  tags,                 \* tag name -> tag
  converters,           \* registered converter names
  cache,                \* converter name -> stream ids held by its cache file
  jobs,                 \* background goroutines whose completion closure has not run
  idx,                  \* index file -> stream id -> version of the stream stored (0: absent)
  files,                \* index files that are open and on disk
  views,                \* View values held by clients
  nPcaps,               \* number of ImportPcap calls so far
  monitor,              \* the converter directory, its watcher goroutine and the log
  filter,               \* a Filter: its queue, its worker goroutine and the senders
  cachefile,            \* a converter's cacheFile: the file, its file pointer and the fields
  call,                 \* the last recorded call of a client
  nCalls,               \* number of recorded calls
  ret                   \* error returned by the last call or closure ("": none)

mvars == <<indexes, usedIndexes, nStreams, nextStreamID, nUnmergeableIndexes, allStreams,
           mergeJobRunning, taggingJobRunning, converterJobRunning, importJobs,
           updatedStreamsDuringTaggingJob, addedStreamsDuringTaggingJob, streamsToConvert,
           tags, converters, cache, jobs, idx, files>>
cvars == <<cachefile, call, nCalls>>
vars == <<mvars, views, nPcaps, monitor, filter, cvars, ret>>

\* the manager state as one value, so that the helpers called in sequence by
\* a closure compose as functions
M ==
  [indexes |-> indexes, usedIndexes |-> usedIndexes, nStreams |-> nStreams,
   nextStreamID |-> nextStreamID, nUnmergeableIndexes |-> nUnmergeableIndexes,
   allStreams |-> allStreams, mergeJobRunning |-> mergeJobRunning,
   taggingJobRunning |-> taggingJobRunning, converterJobRunning |-> converterJobRunning,
   importJobs |-> importJobs,
   updatedStreamsDuringTaggingJob |-> updatedStreamsDuringTaggingJob,
   addedStreamsDuringTaggingJob |-> addedStreamsDuringTaggingJob,
   streamsToConvert |-> streamsToConvert, tags |-> tags, converters |-> converters,
   cache |-> cache, jobs |-> jobs, idx |-> idx, files |-> files]

Commit(m) ==
  /\ indexes' = m.indexes
  /\ usedIndexes' = m.usedIndexes
  /\ nStreams' = m.nStreams
  /\ nextStreamID' = m.nextStreamID
  /\ nUnmergeableIndexes' = m.nUnmergeableIndexes
  /\ allStreams' = m.allStreams
  /\ mergeJobRunning' = m.mergeJobRunning
  /\ taggingJobRunning' = m.taggingJobRunning
  /\ converterJobRunning' = m.converterJobRunning
  /\ importJobs' = m.importJobs
  /\ updatedStreamsDuringTaggingJob' = m.updatedStreamsDuringTaggingJob
  /\ addedStreamsDuringTaggingJob' = m.addedStreamsDuringTaggingJob
  /\ streamsToConvert' = m.streamsToConvert
  /\ tags' = m.tags
  /\ converters' = m.converters
  /\ cache' = m.cache
  /\ jobs' = m.jobs
  /\ idx' = m.idx
  /\ files' = m.files

NoStreams == [s \in Streams |-> 0]
EmptyMap == [x \in {} |-> {}]

\* The scheduler goroutine is alive and every reader the manager or a job
\* uses is open.  What a closed reader returns is not defined by the
\* repository: the model does not follow the program past such a state.
Running ==
  /\ ret # "panic"
  /\ \A i \in Range(indexes) \cup UNION {Range(j.indexes) : j \in jobs} : i \in files

\* ------------------------------------------------------- index release pool
RECURSIVE lockEach(_, _)
lockEach(u, r) ==
  IF r = <<>> THEN u
  ELSE lockEach([u EXCEPT ![Head(r)] = @ + 1], Tail(r))

\* mgr.lock: the releaser it returns is the list itself
lock(m, r) == [m EXCEPT !.usedIndexes = lockEach(@, r)]

\* indexReleaser.release.  usedIndexes counts in uint: a count decremented at
\* zero wraps around, and a negative number n stands for 2^64 + n, which is
\* never zero again until it is incremented back.
RECURSIVE release(_, _)
release(m, r) ==
  IF r = <<>> THEN m
  ELSE LET i == Head(r)
           n == m.usedIndexes[i] - 1
       IN release(IF n = 0
                  THEN [m EXCEPT !.usedIndexes[i] = 0,
                                 !.files = @ \ {i},
                                 !.idx[i] = NoStreams]
                  ELSE [m EXCEPT !.usedIndexes[i] = n],
                  Tail(r))

\* the snapshot of mgr.indexes[start:] (start counts from 0)
IndexesFrom(m, start) == SubSeqFrom(m.indexes, start + 1)

getIndexesCopy(m, start) == lock(m, IndexesFrom(m, start))

StreamIDs(m, i) == {s \in Streams : m.idx[i][s] > 0}
StreamCount(m, i) == Cardinality(StreamIDs(m, i))

\* ----------------------------------------------------------- tag registry
RECURSIVE inheritFrom(_, _)
inheritFrom(m, resolvedTags) ==
  LET ready == {tn \in DOMAIN m.tags \ resolvedTags :
                  referencedTags(m.tags[tn]) \subseteq resolvedTags}
  IN IF ready = {} THEN m
     ELSE LET tn == CHOOSE x \in ready : TRUE
              ti == m.tags[tn]
              d == ti.definition
              fullyInvalidated == \E rtn \in d.SubQueryTags : m.tags[rtn].Uncertain # {}
              u == IF d.MainTags = {} /\ d.SubQueryTags = {} THEN ti.Uncertain
                   ELSE IF fullyInvalidated THEN m.allStreams
                   ELSE ti.Uncertain \cup UNION {m.tags[rtn].Uncertain : rtn \in d.MainTags}
          IN inheritFrom([m EXCEPT !.tags[tn].Uncertain = u], resolvedTags \cup {tn})

inheritTagUncertainty(m) == inheritFrom(m, {})

\* an invalidation that treats updated streams like added ones
invalidateTagsAlike(m, updatedStreams, addedStreams) ==
  LET inv(ti) ==
        LET d == ti.definition IN
        IF d.SubQueryFeatures # {} THEN m.allStreams
        ELSE IF d.MainFeatures \ {FeatureFilterID} = {} THEN ti.Uncertain
        ELSE ti.Uncertain \cup addedStreams \cup updatedStreams
  IN inheritTagUncertainty(
       [m EXCEPT !.tags = [tn \in DOMAIN @ |-> [@[tn] EXCEPT !.Uncertain = inv(m.tags[tn])]]])

invalidateTags(m, updatedStreams, addedStreams) ==
  LET inv(ti) ==
        LET d == ti.definition IN
        IF d.SubQueryFeatures # {} THEN m.allStreams
        ELSE IF d.MainFeatures \ {FeatureFilterID} = {} THEN ti.Uncertain
        ELSE ti.Uncertain \cup addedStreams
             \cup (IF d.MainFeatures \cap {FeatureFilterData, FeatureFilterTimeAbsolute,
                                           FeatureFilterTimeRelative} # {}
                   THEN updatedStreams ELSE {})
  IN inheritTagUncertainty(
       [m EXCEPT !.tags = [tn \in DOMAIN @ |-> [@[tn] EXCEPT !.Uncertain = inv(m.tags[tn])]]])

\* query.TagDetails of a tag: the part of a tag that is copied into job and
\* View snapshots
TagDetails(t) == [Matches |-> t.Matches, Uncertain |-> t.Uncertain, Conditions |-> t.definition]

\* ---------------------------------------------------------------- scheduler
\* Go iterates maps in random order: the helpers that start the first
\* eligible entry of a map return the set of states they can produce.
Bind(S, F(_)) == UNION {F(m) : m \in S}

\* number of goroutines of one kind in flight; recorded in a new job so that
\* two jobs of one kind are two records
InFlight(m, kind) == Cardinality({j \in m.jobs : j.kind = kind})

\* a scheduler whose scan starts at position 0 whatever nUnmergeableIndexes is
startMergeJobFromStart(m) ==
  LET counts == [k \in DOMAIN m.indexes |-> StreamCount(m, m.indexes[k])]
      rest(i) == m.nStreams - SumOver(counts, 1 .. i)
      C == {i \in DOMAIN m.indexes : counts[i] < rest(i)}
  IN IF C = {} THEN m
     ELSE LET i == Min(C)
              m1 == getIndexesCopy([m EXCEPT !.mergeJobRunning = TRUE], i - 1)
          IN [m1 EXCEPT !.jobs = @ \cup {[kind |-> "merge", n |-> InFlight(m, "merge"),
                                          offset |-> i - 1,
                                          indexes |-> IndexesFrom(m, i - 1)]}]

\* the loop of startMergeJobIfNeeded over mgr.indexes
startMergeJob(m) ==
  LET counts == [k \in DOMAIN m.indexes |-> StreamCount(m, m.indexes[k])]
      rest(i) == m.nStreams - SumOver(counts, 1 .. i)
      C == {i \in DOMAIN m.indexes : i - 1 >= m.nUnmergeableIndexes /\ counts[i] < rest(i)}
  IN IF C = {} THEN m
     ELSE LET i == Min(C)
              m1 == getIndexesCopy([m EXCEPT !.mergeJobRunning = TRUE], i - 1)
          IN [m1 EXCEPT !.jobs = @ \cup {[kind |-> "merge", n |-> InFlight(m, "merge"),
                                          offset |-> i - 1,
                                          indexes |-> IndexesFrom(m, i - 1)]}]

\* a scheduler that merges whenever no merge is running
startMergeJobIgnoringTags(m) ==
  IF m.mergeJobRunning THEN m ELSE startMergeJob(m)

startMergeJobIfNeeded(m) ==
  IF m.mergeJobRunning \/ m.taggingJobRunning THEN m
  ELSE IF \E n \in DOMAIN m.tags : m.tags[n].Uncertain # {} THEN m
  ELSE startMergeJob(m)

\* a scheduler that takes any uncertain tag, whatever it refers to
TaggingCandidatesAny(m) ==
  {n \in DOMAIN m.tags : m.tags[n].Uncertain # {}}

TaggingCandidates(m) ==
  {n \in DOMAIN m.tags :
     /\ m.tags[n].Uncertain # {}
     /\ \A tn \in referencedTags(m.tags[n]) \cap DOMAIN m.tags : m.tags[tn].Uncertain = {}}

startTaggingJob(m, n) ==
  LET t == m.tags[n]
      m1 == getIndexesCopy([m EXCEPT !.updatedStreamsDuringTaggingJob = {},
                                     !.addedStreamsDuringTaggingJob = {},
                                     !.taggingJobRunning = TRUE], 0)
  IN [m1 EXCEPT !.jobs = @ \cup {[kind |-> "tag", n |-> InFlight(m, "tag"), name |-> n, t |-> t,
                                  tagDetails |-> [tn \in referencedTags(t) \cap DOMAIN m.tags |->
                                                    TagDetails(m.tags[tn])],
                                  indexes |-> m.indexes]}]

\* a scheduler that starts a tagging job whatever is running
startTaggingJobAlways(m) ==
  IF TaggingCandidates(m) = {} THEN {m}
  ELSE {startTaggingJob(m, n) : n \in TaggingCandidates(m)}

startTaggingJobIfNeeded(m) ==
  IF m.taggingJobRunning \/ TaggingCandidates(m) = {} THEN {m}
  ELSE {startTaggingJob(m, n) : n \in TaggingCandidates(m)}

ConverterCandidates(m) == {c \in m.converters : m.streamsToConvert[c] # {}}

startConverterJob(m, c) ==
  LET m1 == getIndexesCopy([m EXCEPT !.converterJobRunning = TRUE], 0)
  IN [m1 EXCEPT !.streamsToConvert[c] = {},
                !.jobs = @ \cup {[kind |-> "convert", n |-> InFlight(m, "convert"),
                                  converter |-> c,
                                  streamIDs |-> m.streamsToConvert[c],
                                  indexes |-> m.indexes]}]

startConverterJobIfNeeded(m) ==
  IF m.converterJobRunning \/ ConverterCandidates(m) = {} THEN {m}
  ELSE {startConverterJob(m, c) : c \in ConverterCandidates(m)}

startImportJob(m, filenames) ==
  LET m1 == getIndexesCopy(m, 0)
  IN [m1 EXCEPT !.jobs = @ \cup {[kind |-> "import", n |-> InFlight(m, "import"),
                                  filenames |-> filenames,
                                  nextStreamID |-> m.nextStreamID,
                                  indexes |-> m.indexes]}]

\* ------------------------------------------------- index.SearchStreams (external)
\* version of stream s as the index list shows it: the last index holding it wins
Version(m, idxs, s) ==
  LET P == {k \in DOMAIN idxs : m.idx[idxs[k]][s] > 0}
  IN IF P = {} THEN 0 ELSE m.idx[idxs[Max(P)]][s]

\* the predicate of a definition on stream s over an index list and the
\* details of the referenced tags.  An "other" predicate depends on the
\* stream's immutable attributes, a data or time predicate on its bytes (which
\* change with every new version), a main tag reference on the referenced
\* tag's match bit of s, a subquery tag reference on the referenced tag's
\* matches as a whole.
Holds(m, idxs, d, td, s) ==
  /\ Version(m, idxs, s) > 0
  /\ (FeatureFilterID \in d.MainFeatures => s \in d.ids)
  /\ (FeatureFilterOther \in d.MainFeatures => s % 2 = 0)
  /\ (d.MainFeatures \cap {FeatureFilterData, FeatureFilterTimeAbsolute} # {}
        => Version(m, idxs, s) % 2 = 1)
  /\ \A r \in d.MainTags : s \in td[r].Matches
  /\ \A r \in d.SubQueryTags : td[r].Matches # {}

SearchStreams(m, idxs, mask, d, td) == {s \in mask : Holds(m, idxs, d, td, s)}

\* -------------------------------------------------------------- import
\* a new index reader takes a slot that nothing refers to any more
FreeSlots(m) ==
  {i \in IdxIds :
     /\ i \notin m.files
     /\ m.usedIndexes[i] = 0
     /\ i \notin Range(m.indexes)
     /\ \A j \in m.jobs : i \notin Range(j.indexes)
     /\ \A v \in DOMAIN views : i \notin Range(views[v].indexes)}

NewIndex(m) == Min(FreeSlots(m))

\* closure of ImportPcap
ImportPcap ==
  /\ Running
  /\ nPcaps < MaxPcaps
  /\ nPcaps' = nPcaps + 1
  /\ LET m1 == [M EXCEPT !.importJobs = Append(@, "pcap")]
         m2 == IF Len(m1.importJobs) = 1 THEN startImportJob(m1, SubSeq(m1.importJobs, 1, 1)) ELSE m1
     IN Commit(m2)
  /\ ret' = ""
  /\ UNCHANGED <<views, monitor, filter, cvars>>

\* an import completion that takes nextStreamID from the new index alone
importPcapJobClosureLastIndex(m, j, processedFiles, added, updated) ==
  LET A == j.nextStreamID .. (j.nextStreamID + added - 1)
      created == A \cup updated # {}
      newNextStreamID == j.nextStreamID + added
      i == NewIndex(m)
      content == [s \in Streams |-> IF s \in A THEN 1
                                    ELSE IF s \in updated THEN Version(m, j.indexes, s) + 1
                                    ELSE 0]
      m0 == [m EXCEPT !.jobs = @ \ {j}]
      m1 == release([m0 EXCEPT !.allStreams = 0 .. (newNextStreamID - 1)], j.indexes)
      m2 == IF created
            THEN LET a == [m1 EXCEPT !.idx[i] = content, !.files = @ \cup {i},
                                     !.indexes = Append(@, i),
                                     !.nStreams = @ + Cardinality(A \cup updated),
                                     !.nextStreamID = Max(A \cup updated) + 1]
                     b == lock(a, <<i>>)
                     c == [b EXCEPT !.addedStreamsDuringTaggingJob = @ \cup A,
                                    !.updatedStreamsDuringTaggingJob = @ \cup updated]
                 IN invalidateTags(c, updated, A)
            ELSE m1
      m3 == [m2 EXCEPT !.importJobs = SubSeqFrom(@, processedFiles + 1)]
      m4 == IF Len(m3.importJobs) >= 1 THEN startImportJob(m3, m3.importJobs) ELSE m3
  IN {startMergeJobIfNeeded(x) : x \in startTaggingJobIfNeeded(m4)}

\* importPcapJob: the builder processed processedFiles of the job's files and
\* created at most one index, holding the added streams (the next `added`
\* ids) and new versions of the streams in `updated`
importPcapJobClosure(m, j, processedFiles, added, updated) ==
  LET A == j.nextStreamID .. (j.nextStreamID + added - 1)
      created == A \cup updated # {}
      newNextStreamID == j.nextStreamID + added
      i == NewIndex(m)
      content == [s \in Streams |-> IF s \in A THEN 1
                                    ELSE IF s \in updated THEN Version(m, j.indexes, s) + 1
                                    ELSE 0]
      m0 == [m EXCEPT !.jobs = @ \ {j}]
      m1 == release([m0 EXCEPT !.allStreams = 0 .. (newNextStreamID - 1)], j.indexes)
      m2 == IF created
            THEN LET a == [m1 EXCEPT !.idx[i] = content, !.files = @ \cup {i},
                                     !.indexes = Append(@, i),
                                     !.nStreams = @ + Cardinality(A \cup updated),
                                     !.nextStreamID = newNextStreamID]
                     b == lock(a, <<i>>)
                     c == [b EXCEPT !.addedStreamsDuringTaggingJob = @ \cup A,
                                    !.updatedStreamsDuringTaggingJob = @ \cup updated]
                 IN invalidateTags(c, updated, A)
            ELSE m1
      m3 == [m2 EXCEPT !.importJobs = SubSeqFrom(@, processedFiles + 1)]
      m4 == IF Len(m3.importJobs) >= 1 THEN startImportJob(m3, m3.importJobs) ELSE m3
  IN {startMergeJobIfNeeded(x) : x \in startTaggingJobIfNeeded(m4)}

\* completion of an import job; pcaps that hold packets of known streams
\* produce new versions of them only when withUpdates
ImportDoneOf(withUpdates) ==
  /\ Running
  /\ \E j \in jobs :
       /\ j.kind = "import"
       /\ \E processedFiles \in 1 .. Len(j.filenames), added \in 0 .. (MaxStreamID - j.nextStreamID),
             updated \in (IF withUpdates THEN SUBSET (0 .. (j.nextStreamID - 1)) ELSE {{}}) :
            /\ (added > 0 \/ updated # {}) => FreeSlots(M) # {}
            /\ \E m \in importPcapJobClosure(M, j, processedFiles, added, updated) : Commit(m)
  /\ ret' = ""
  /\ UNCHANGED <<views, nPcaps, monitor, filter, cvars>>

ImportDone == ImportDoneOf(TRUE)

ImportDoneNewStreams == ImportDoneOf(FALSE)

\* -------------------------------------------------------------- merge
\* a merge job whose failure is not counted
mergeIndexesJobClosureUncounted(m, j, ok) ==
  LET m1 == [m EXCEPT !.jobs = @ \ {j}, !.mergeJobRunning = FALSE]
  IN release(startMergeJobIfNeeded(m1), j.indexes)

\* mergeIndexesJob: index.Merge either fails (no output) or writes one index
\* holding the newest version of every stream of its inputs
mergeIndexesJobClosure(m, j, ok) ==
  LET i == NewIndex(m)
      content == [s \in Streams |-> Version(m, j.indexes, s)]
      inputs == SumOver([k \in DOMAIN j.indexes |-> StreamCount(m, j.indexes[k])], DOMAIN j.indexes)
      streamsDiff == Cardinality({s \in Streams : content[s] > 0}) - inputs
      n == Len(j.indexes)
      mergedIndexes == <<i>>
      m0 == [m EXCEPT !.jobs = @ \ {j}]
      m1 == IF ~ok
            THEN [m0 EXCEPT !.nUnmergeableIndexes = @ + 1]
            ELSE LET a == [m0 EXCEPT !.idx[i] = content, !.files = @ \cup {i}]
                     b == release(a, SubSeq(a.indexes, j.offset + 1, j.offset + n))
                     c == lock(b, mergedIndexes)
                 IN [c EXCEPT !.indexes = SubSeq(@, 1, j.offset) \o mergedIndexes
                                          \o SubSeqFrom(@, j.offset + n + 1),
                              !.nUnmergeableIndexes = @ + (Len(mergedIndexes) - 1),
                              !.nStreams = @ + streamsDiff]
      m2 == startMergeJobIfNeeded([m1 EXCEPT !.mergeJobRunning = FALSE])
  IN release(m2, j.indexes)

MergeDone ==
  /\ Running
  /\ \E j \in jobs :
       /\ j.kind = "merge"
       /\ FreeSlots(M) # {}
       /\ Commit(mergeIndexesJobClosure(M, j, TRUE))
  /\ ret' = ""
  /\ UNCHANGED <<views, nPcaps, monitor, filter, cvars>>

MergeFail ==
  /\ Running
  /\ \E j \in jobs :
       /\ j.kind = "merge"
       /\ Commit(mergeIndexesJobClosure(M, j, FALSE))
  /\ ret' = "merge failed"
  /\ UNCHANGED <<views, nPcaps, monitor, filter, cvars>>

\* -------------------------------------------------------------- tagging
\* updateTagJob: the search runs over the job's snapshot; the closure runs on
\* the scheduler.  A converter of the job's tag copy that is no longer in
\* mgr.streamsToConvert makes the closure dereference a nil pointer.
\* a job that keeps the matches it started with when its search fails
updateTagJobResultKeeping(m, j, searchOk) ==
  LET streams == SearchStreams(m, j.indexes, j.t.Uncertain, j.t.definition, j.tagDetails)
  IN [j.t EXCEPT !.Matches = IF searchOk THEN (@ \ j.t.Uncertain) \cup streams ELSE @,
                 !.Uncertain = {}]

updateTagJobResult(m, j, searchOk) ==
  LET streams == SearchStreams(m, j.indexes, j.t.Uncertain, j.t.definition, j.tagDetails)
  IN [j.t EXCEPT !.Matches = IF searchOk THEN (@ \ j.t.Uncertain) \cup streams ELSE {},
                 !.Uncertain = {}]

updateTagJobPanics(m, j) ==
  /\ j.name \in DOMAIN m.tags
  /\ m.tags[j.name].definition = j.t.definition
  /\ \E k \in DOMAIN j.t.converters : j.t.converters[k] \notin DOMAIN m.streamsToConvert

\* a completion that stores the job's tag whether or not the tag still exists
updateTagJobClosureRestoring(m, j, searchOk) ==
  LET t == updateTagJobResult(m, j, searchOk)
      m1 == [m EXCEPT !.jobs = @ \ {j}, !.taggingJobRunning = FALSE,
                      !.tags = [tn \in DOMAIN @ \cup {j.name} |-> IF tn = j.name THEN t ELSE @[tn]]]
  IN {release(m1, j.indexes)}

updateTagJobClosure(m, j, searchOk) ==
  LET t == updateTagJobResult(m, j, searchOk)
      m0 == [m EXCEPT !.jobs = @ \ {j}]
      m1 == IF j.name \in DOMAIN m0.tags /\ m0.tags[j.name].definition = t.definition
            THEN LET a == [m0 EXCEPT !.streamsToConvert =
                             [c \in DOMAIN @ |-> IF c \in Range(t.converters)
                                                 THEN @[c] \cup t.Matches ELSE @[c]],
                                     !.tags[j.name] = t]
                 IN IF a.updatedStreamsDuringTaggingJob = {} /\ a.addedStreamsDuringTaggingJob = {}
                    THEN a
                    ELSE invalidateTags(a, a.updatedStreamsDuringTaggingJob,
                                        a.addedStreamsDuringTaggingJob)
            ELSE m0
      m2 == [m1 EXCEPT !.taggingJobRunning = FALSE]
      S1 == startTaggingJobIfNeeded(m2)
      S2 == {startMergeJobIfNeeded(x) : x \in S1}
      S3 == Bind(S2, startConverterJobIfNeeded)
  IN {release(x, j.indexes) : x \in S3}

TagDone ==
  /\ Running
  /\ \E j \in jobs :
       /\ j.kind = "tag"
       /\ IF updateTagJobPanics(M, j)
          THEN /\ ret' = "panic"
               /\ UNCHANGED mvars
          ELSE /\ \E m \in updateTagJobClosure(M, j, TRUE) : Commit(m)
               /\ ret' = ""
  /\ UNCHANGED <<views, nPcaps, monitor, filter, cvars>>

TagFail ==
  /\ Running
  /\ \E j \in jobs :
       /\ j.kind = "tag"
       /\ ~updateTagJobPanics(M, j)
       /\ \E m \in updateTagJobClosure(M, j, FALSE) : Commit(m)
  /\ ret' = "search failed"
  /\ UNCHANGED <<views, nPcaps, monitor, filter, cvars>>

\* -------------------------------------------------------------- tag edits
NewTag(d) == [definition |-> d, Matches |-> {}, Uncertain |-> {}, color |-> "", converters |-> <<>>]

\* the checks AddTag makes before it posts its closure
AddTagPrecheck(name, d) ==
  IF FeatureFilterTimeRelative \in (d.MainFeatures \cup d.SubQueryFeatures)
  THEN "relative times not yet supported in tags"
  ELSE IF name \in (d.MainTags \cup d.SubQueryTags)
  THEN "self reference not allowed in tags"
  ELSE IF isMark(name) /\ ~(d.MainFeatures = {FeatureFilterID} /\ d.SubQueryFeatures = {}
                            /\ d.MainTags = {} /\ d.SubQueryTags = {})
  THEN "tags of type mark have to only contain an id filter"
  ELSE ""

AddTagError(m, name, d) ==
  IF name \in DOMAIN m.tags THEN "tag already exists"
  ELSE IF \E t \in (d.MainTags \cup d.SubQueryTags) : t \notin DOMAIN m.tags
  THEN "unknown referenced tag"
  ELSE ""

\* an AddTag that treats every tag like a mark: no stream is uncertain
AddTagClosureAllCertain(m, name, d) ==
  {[m EXCEPT !.tags = [tn \in DOMAIN @ \cup {name} |->
                         IF tn = name THEN [NewTag(d) EXCEPT !.Matches = d.ids] ELSE @[tn]]]}

AddTagClosure(m, name, d) ==
  LET nt == IF isMark(name) THEN [NewTag(d) EXCEPT !.Matches = d.ids]
            ELSE [NewTag(d) EXCEPT !.Uncertain = m.allStreams]
      m1 == [m EXCEPT !.tags = [tn \in DOMAIN @ \cup {name} |-> IF tn = name THEN nt ELSE @[tn]]]
  IN IF isMark(name) THEN {m1} ELSE startTaggingJobIfNeeded(m1)

\* AddTag called with one of the definitions defs(name) of a name in names
AddTagOf(names, defs(_)) ==
  /\ Running
  /\ \E name \in names : \E d \in defs(name) :
       IF AddTagPrecheck(name, d) # ""
       THEN /\ ret' = AddTagPrecheck(name, d)
            /\ UNCHANGED mvars
       ELSE IF AddTagError(M, name, d) # ""
       THEN /\ ret' = AddTagError(M, name, d)
            /\ UNCHANGED mvars
       ELSE /\ ret' = ""
            /\ \E m \in AddTagClosure(M, name, d) : Commit(m)
  /\ UNCHANGED <<views, nPcaps, monitor, filter, cvars>>

\* -------------------------------------------------------------- converters
\* converter.Reset: stops the processes and truncates the cache file
ResetCache(m, c) == [m EXCEPT !.cache[c] = {}]

RemoveAt(q, i) == SubSeq(q, 1, i - 1) \o SubSeqFrom(q, i + 1)

FirstIndexOf(q, x) == Min({k \in DOMAIN q : q[k] = x})

detachConverterFromTag(m, tagName, c) ==
  LET cs == m.tags[tagName].converters
      m1 == IF c \in Range(cs)
            THEN [m EXCEPT !.tags[tagName].converters = RemoveAt(cs, FirstIndexOf(cs, c))]
            ELSE m
      matchingStreams == UNION {m1.tags[tn].Matches :
                                  tn \in {x \in DOMAIN m1.tags \ {tagName} :
                                            c \in Range(m1.tags[x].converters)}}
      onlyThisTag == m1.tags[tagName].Matches \ matchingStreams
      m2 == [m1 EXCEPT !.streamsToConvert[c] = @ \ onlyThisTag]
  IN IF matchingStreams = {} THEN ResetCache(m2, c) ELSE m2

attachConverterError(m, tagName, c) ==
  LET d == m.tags[tagName].definition
  IN IF c \in Range(m.tags[tagName].converters) THEN ""
     ELSE IF \/ FeatureFilterData \in d.MainFeatures
             \/ FeatureFilterData \in d.SubQueryFeatures
             \/ d.MainTags # {}
             \/ d.SubQueryTags # {}
     THEN "query is too complex"
     ELSE ""

\* attachConverterToTag when it returns no error
attachConverterToTag(m, tagName, c) ==
  IF c \in Range(m.tags[tagName].converters) THEN {m}
  ELSE startConverterJobIfNeeded(
         [m EXCEPT !.tags[tagName].converters = Append(@, c),
                   !.streamsToConvert[c] = @ \cup m.tags[tagName].Matches])

\* `for _, converter := range tag.converters { detach... }`: the range reads
\* element k of the backing array of the slice as it was when the loop began,
\* while every detach shifts the later elements of that array one to the left
RECURSIVE detachLoop(_, _, _, _, _)
detachLoop(m, tagName, backing, k, keep) ==
  IF k > Len(backing) THEN m
  ELSE LET c == backing[k]
           cs == m.tags[tagName].converters
       IN IF c \in keep THEN detachLoop(m, tagName, backing, k + 1, keep)
          ELSE LET b == IF c \in Range(cs)
                        THEN LET i == FirstIndexOf(cs, c)
                             IN SubSeq(backing, 1, i - 1) \o SubSeq(backing, i + 1, Len(cs))
                                \o SubSeqFrom(backing, Len(cs))
                        ELSE backing
               IN detachLoop(detachConverterFromTag(m, tagName, c), tagName, b, k + 1, keep)

RECURSIVE attachLoop(_, _, _, _)
\* the attach loop of UpdateTag over info.setConverterNames; the result is the
\* set of <<state, error>> it can end with
attachLoop(m, tagName, names, converterNames) ==
  IF names = <<>> THEN {<<m, "">>}
  ELSE LET c == Head(names)
       IN IF c \in converterNames THEN attachLoop(m, tagName, Tail(names), converterNames)
          ELSE IF c \notin m.converters THEN {<<m, "unknown converter">>}
          ELSE IF attachConverterError(m, tagName, c) # ""
          THEN {<<m, attachConverterError(m, tagName, c)>>}
          ELSE UNION {attachLoop(x, tagName, Tail(names), converterNames) :
                        x \in attachConverterToTag(m, tagName, c)}

\* closure of UpdateTag with UpdateTagOperationSetConverter(names)
UpdateTagSetConverter(m, name, names) ==
  IF name \notin DOMAIN m.tags THEN {<<m, "unknown tag">>}
  ELSE LET m1 == detachLoop(m, name, m.tags[name].converters, 1, Range(names))
       IN attachLoop(m1, name, names, Range(m1.tags[name].converters))

\* UpdateTag(name, UpdateTagOperationSetConverter(names))
UpdateTagConvertersOf(name, names) ==
  \E r \in UpdateTagSetConverter(M, name, names) :
     /\ Commit(r[1])
     /\ ret' = r[2]

UpdateTagConverters ==
  /\ Running
  /\ \E name \in TagNames, names \in {<<>>} \cup {<<c>> : c \in ConverterNames} :
       UpdateTagConvertersOf(name, names)
  /\ UNCHANGED <<views, nPcaps, monitor, filter, cvars>>

\* the converter lists clients ask for
ConverterLists ==
  {<<>>, <<"c1">>, <<"c3">>, <<"c2", "c1">>, <<"c1", "c2", "c3">>, <<"c2", "c4">>}

\* a client's converter update, the call being recorded
CallUpdateTagConverters ==
  /\ Running
  /\ nCalls < MaxCalls
  /\ \E name \in TagNames, names \in ConverterLists :
       /\ UpdateTagConvertersOf(name, names)
       /\ call' = [op |-> "SetConverter", name |-> name, names |-> names]
  /\ nCalls' = nCalls + 1
  /\ UNCHANGED <<views, nPcaps, monitor, filter, cachefile>>

\* a mark update that leaves the edited ids in the mark's own uncertain set
UpdateTagMarkKeepingUncertain(m, name, add, del) ==
  LET tag == m.tags[name]
      matches == (tag.Matches \cup add) \ del
      newTag == [tag EXCEPT !.Matches = matches,
                            !.Uncertain = @ \cup add \cup del,
                            !.definition = DefID(matches)]
  IN startTaggingJobIfNeeded(inheritTagUncertainty([m EXCEPT !.tags[name] = newTag]))

\* closure of UpdateTag with a mark add or mark del operation on ids
UpdateTagMarkClosure(m, name, add, del) ==
  LET tag == m.tags[name]
      matches == (tag.Matches \cup add) \ del
      newTag == [tag EXCEPT !.Matches = matches,
                            !.Uncertain = @ \cup add \cup del,
                            !.definition = DefID(matches)]
      m1 == inheritTagUncertainty([m EXCEPT !.tags[name] = newTag])
  IN startTaggingJobIfNeeded([m1 EXCEPT !.tags[name].Uncertain = {}])

\* UpdateTag(name, UpdateTagOperationMarkAddStream(ids)) when isAdd, and
\* UpdateTag(name, UpdateTagOperationMarkDelStream(ids)) otherwise
UpdateTagMarkOf(name, ids, isAdd) ==
  LET maxUsedStreamID == Max(ids)
  IN IF ~isMark(name)
     THEN /\ ret' = "tag is not of type mark"
          /\ UNCHANGED mvars
     ELSE IF name \notin DOMAIN tags
     THEN /\ ret' = "unknown tag"
          /\ UNCHANGED mvars
     ELSE IF maxUsedStreamID = 0
     THEN /\ ret' = ""
          /\ UNCHANGED mvars
     ELSE IF maxUsedStreamID >= nextStreamID
     THEN /\ ret' = "unknown stream id"
          /\ UNCHANGED mvars
     ELSE /\ ret' = ""
          /\ \E m \in UpdateTagMarkClosure(M, name, IF isAdd THEN ids ELSE {},
                                           IF isAdd THEN {} ELSE ids) : Commit(m)

UpdateTagMark ==
  /\ Running
  /\ \E name \in TagNames, ids \in SUBSET Streams \ {{}}, isAdd \in BOOLEAN :
       UpdateTagMarkOf(name, ids, isAdd)
  /\ UNCHANGED <<views, nPcaps, monitor, filter, cvars>>

\* a client's mark update, the call being recorded
CallUpdateTagMark ==
  /\ Running
  /\ nCalls < MaxCalls
  /\ \E name \in {n \in TagNames : isMark(n)}, ids \in SUBSET Streams \ {{}}, isAdd \in BOOLEAN :
       /\ UpdateTagMarkOf(name, ids, isAdd)
       /\ call' = [op |-> "UpdateTag", name |-> name, ids |-> ids, isAdd |-> isAdd]
  /\ nCalls' = nCalls + 1
  /\ UNCHANGED <<views, nPcaps, monitor, filter, cachefile>>

\* a DelTag that deletes a tag other tags refer to
DelTagErrorUnknownOnly(m, name) ==
  IF name \notin DOMAIN m.tags THEN "unknown tag" ELSE ""

DelTagError(m, name) ==
  IF name \notin DOMAIN m.tags THEN "unknown tag"
  ELSE IF \E t2 \in DOMAIN m.tags : name \in referencedTags(m.tags[t2])
  THEN "still references the tag to be deleted"
  ELSE ""

DelTagClosure(m, name) ==
  LET m1 == detachLoop(m, name, m.tags[name].converters, 1, {})
  IN [m1 EXCEPT !.tags = [tn \in DOMAIN @ \ {name} |-> @[tn]]]

DelTag ==
  /\ Running
  /\ \E name \in TagNames :
       IF DelTagError(M, name) # ""
       THEN /\ ret' = DelTagError(M, name)
            /\ UNCHANGED mvars
       ELSE /\ ret' = ""
            /\ Commit(DelTagClosure(M, name))
  /\ UNCHANGED <<views, nPcaps, monitor, filter, cvars>>

\* ------------------------------------------------------- conversion job
\* runtime.NumCPU()
NumCPU == 2

MinStreamID(m, i) == Min(StreamIDs(m, i))
MaxStreamIDOf(m, i) == Max(StreamIDs(m, i))

\* The dispatch loop of convertStreamJob.  st holds the loop's locals:
\* idxIdx, streamID, streamIDs, convertedCount, pending (conversions started
\* whose result has not been received), converted (convertedStreamIDs),
\* cached (the cache contents as the loop sees them) and status.
\* waitForResults(limit) receives limit results: it never returns when fewer
\* conversions are outstanding.
waitForResults(st, limit, fails) ==
  IF limit > Cardinality(st.pending) THEN [st EXCEPT !.status = "hang"]
  ELSE [st EXCEPT !.converted = @ \cup (st.pending \ fails),
                  !.cached = @ \cup (st.pending \ fails),
                  !.pending = {},
                  !.status = IF limit > 0 /\ st.pending \cap fails # {} THEN "err" ELSE @]

RECURSIVE convertLoop(_, _, _)
convertLoop(m, st, r) ==
  IF st.status # "run" THEN st
  ELSE IF st.idxIdx < 1 THEN [st EXCEPT !.status = "ok"]
  ELSE LET index == r.indexes[st.idxIdx]
           streamID == IF st.streamID < 0 THEN MinStreamID(m, index) ELSE st.streamID
           next == {s \in st.streamIDs : s >= streamID}
           endOfIndex ==
             LET w == waitForResults(st, st.convertedCount, r.fails)
             IN convertLoop(m, [w EXCEPT !.idxIdx = @ - 1, !.streamID = -1], r)
       IN IF next = {} THEN endOfIndex
          ELSE LET x == Min(next)
               IN IF x > MaxStreamIDOf(m, index) THEN endOfIndex
                  ELSE IF x \in st.cached
                  THEN convertLoop(m, [st EXCEPT !.streamID = x, !.streamIDs = @ \ {x}], r)
                  ELSE IF m.idx[index][x] = 0
                  THEN convertLoop(m, [st EXCEPT !.streamID = x + 1], r)
                  ELSE LET a == [st EXCEPT !.streamID = x + 1,
                                           !.pending = @ \cup {x},
                                           !.streamIDs = @ \ {x + 1},
                                           !.convertedCount = @ + 1]
                           b == IF a.convertedCount % NumCPU = 0
                                THEN [waitForResults(a, NumCPU, r.fails)
                                        EXCEPT !.convertedCount = @ - NumCPU]
                                ELSE a
                       IN convertLoop(m, b, r)

\* the job's result for the set `fails` of streams whose conversion returns an error
convertStreamJobResult(m, j, fails) ==
  convertLoop(m, [idxIdx |-> Len(j.indexes), streamID |-> -1, streamIDs |-> j.streamIDs,
                  convertedCount |-> 0, pending |-> {}, converted |-> {},
                  cached |-> m.cache[j.converter], status |-> "run"],
              [indexes |-> j.indexes, fails |-> fails])

\* a completion that marks the converted streams uncertain on every tag
convertStreamJobClosureAllTags(m, j, res) ==
  LET c == j.converter
      m0 == [m EXCEPT !.jobs = @ \ {j}, !.converterJobRunning = FALSE, !.cache[c] = res.cached]
  IN IF c \notin m0.converters
     THEN {release(x, j.indexes) : x \in startConverterJobIfNeeded(ResetCache(m0, c))}
     ELSE LET m1 == [m0 EXCEPT !.streamsToConvert[c] = @ \cup res.streamIDs]
              m2 == [m1 EXCEPT !.tags = [tn \in DOMAIN @ |->
                                           [@[tn] EXCEPT !.Uncertain = @ \cup res.converted]]]
              S1 == startTaggingJobIfNeeded(m2)
              S2 == Bind(S1, startConverterJobIfNeeded)
          IN {release(x, j.indexes) : x \in S2}

convertStreamJobClosure(m, j, res) ==
  LET c == j.converter
      m0 == [m EXCEPT !.jobs = @ \ {j}, !.converterJobRunning = FALSE, !.cache[c] = res.cached]
  IN IF c \notin m0.converters
     THEN {release(x, j.indexes) : x \in startConverterJobIfNeeded(ResetCache(m0, c))}
     ELSE LET m1 == [m0 EXCEPT !.streamsToConvert[c] = @ \cup res.streamIDs]
              usesData(t) == FeatureFilterData \in t.definition.MainFeatures
                             \/ FeatureFilterData \in t.definition.SubQueryFeatures
              m2 == [m1 EXCEPT !.tags = [tn \in DOMAIN @ |->
                                           IF usesData(@[tn])
                                           THEN [@[tn] EXCEPT !.Uncertain = @ \cup res.converted]
                                           ELSE @[tn]]]
              S1 == startTaggingJobIfNeeded(m2)
              S2 == Bind(S1, startConverterJobIfNeeded)
          IN {release(x, j.indexes) : x \in S2}

\* a conversion job posts its completion closure, unless it waits for a
\* result that no conversion will send; withErrors: conversions may fail
ConvertDoneOf(withErrors) ==
  /\ Running
  /\ \E j \in jobs :
       /\ j.kind = "convert"
       /\ \E fails \in (IF withErrors THEN SUBSET j.streamIDs ELSE {{}}) :
            LET res == convertStreamJobResult(M, j, fails)
            IN /\ res.status # "hang"
               /\ \E m \in convertStreamJobClosure(M, j, res) : Commit(m)
  /\ ret' = ""
  /\ UNCHANGED <<views, nPcaps, monitor, filter, cvars>>

ConvertDone == ConvertDoneOf(FALSE)

ConvertDoneOrFail == ConvertDoneOf(TRUE)

\* ------------------------------------------------- converter directory events
addConverter(m, c) ==
  [m EXCEPT !.converters = @ \cup {c},
            !.streamsToConvert = [x \in DOMAIN @ \cup {c} |-> IF x = c THEN {} ELSE @[x]]]

AddConverter ==
  /\ Running
  /\ \E c \in ConverterNames :
       IF c \in converters
       THEN /\ ret' = "converter already exists"
            /\ UNCHANGED mvars
       ELSE /\ ret' = ""
            /\ Commit(addConverter(M, c))
  /\ UNCHANGED <<views, nPcaps, monitor, filter, cvars>>

RECURSIVE detachFromAll(_, _, _)
detachFromAll(m, c, todo) ==
  IF todo = {} THEN m
  ELSE LET tn == CHOOSE x \in todo : TRUE
       IN detachFromAll(detachConverterFromTag(m, tn, c), c, todo \ {tn})

removeConverter(m, c) ==
  LET m1 == ResetCache(detachFromAll(m, c, DOMAIN m.tags), c)
  IN [m1 EXCEPT !.converters = @ \ {c},
                !.streamsToConvert = [x \in DOMAIN @ \ {c} |-> @[x]]]

RemoveConverter ==
  /\ Running
  /\ \E c \in ConverterNames :
       IF c \notin converters
       THEN /\ ret' = "converter does not exist"
            /\ UNCHANGED mvars
       ELSE /\ ret' = ""
            /\ Commit(removeConverter(M, c))
  /\ UNCHANGED <<views, nPcaps, monitor, filter, cvars>>

\* restartConverterProcess of a registered converter
restartConverterProcess(m, c) ==
  LET m1 == ResetCache(m, c)
      attached == {tn \in DOMAIN m1.tags : c \in Range(m1.tags[tn].converters)}
  IN startConverterJobIfNeeded(
       [m1 EXCEPT !.streamsToConvert[c] = @ \cup UNION {m1.tags[tn].Matches : tn \in attached}])

\* ResetConverter or a Write event; for an unregistered converter the closure
\* adds it and then calls Reset on the nil pointer it looked up before
RestartConverter ==
  /\ Running
  /\ \E c \in ConverterNames :
       IF c \notin converters
       THEN /\ ret' = "panic"
            /\ Commit(addConverter(M, c))
       ELSE /\ ret' = ""
            /\ \E m \in restartConverterProcess(M, c) : Commit(m)
  /\ UNCHANGED <<views, nPcaps, monitor, filter, cvars>>

\* -------------------------------------------------------------------- views
\* a View value held by a client: its snapshot, its releaser and the number
\* of Release calls made on it
NewView ==
  [indexes |-> <<>>, releaser |-> <<>>, releases |-> 0, tagDetails |-> EmptyMap, converters |-> {}]

\* a client replaces a View it has released by the result of GetView
GetView ==
  /\ Running
  /\ \E v \in DOMAIN views :
       /\ views[v].releases > 0
       /\ views' = [views EXCEPT ![v] = NewView]
  /\ ret' = ""
  /\ UNCHANGED <<mvars, nPcaps, monitor, filter, cvars>>

\* View.fetch: returns at once when the View holds a snapshot; else it locks
\* the indexes and copies the details of every tag and the converter map.
\* Clients are interchangeable: the View that fetches is the first one without
\* a snapshot.
ViewFetch ==
  /\ Running
  /\ \E v \in DOMAIN views :
       /\ views[v].indexes = <<>>
       /\ \A w \in 1..(v - 1) : views[w].indexes # <<>>
       /\ indexes # <<>>
       /\ Commit(getIndexesCopy(M, 0))
       /\ views' = [views EXCEPT ![v].indexes = indexes, ![v].releaser = indexes,
                                 ![v].tagDetails = [tn \in DOMAIN tags |-> TagDetails(tags[tn])],
                                 ![v].converters = converters]
  /\ ret' = ""
  /\ UNCHANGED <<nPcaps, monitor, filter, cvars>>

\* View.Release: the releaser stays in the View, so that a second call
\* releases the indexes again
ViewRelease ==
  /\ Running
  /\ \E v \in DOMAIN views :
       /\ views[v].releaser # <<>>
       /\ views[v].releases < MaxReleases
       /\ Commit(release(M, views[v].releaser))
       /\ views' = [views EXCEPT ![v].releases = @ + 1]
  /\ ret' = ""
  /\ UNCHANGED <<nPcaps, monitor, filter, cvars>>

\* View.Stream: the streams a View finds in the indexes of its snapshot
ViewStreams(view) ==
  {s \in Streams : \E k \in DOMAIN view.indexes : idx[view.indexes[k]][s] > 0}

\* StreamContext.HasTag: a missing entry of tagDetails reads as the zero value
HasTag(view, name, s) ==
  IF name \notin DOMAIN view.tagDetails THEN FALSE
  ELSE LET td == view.tagDetails[name]
       IN IF s \notin td.Uncertain THEN s \in td.Matches ELSE FALSE

\* StreamContext.AllTags (the names, which the code returns sorted)
AllTags(view, s) ==
  {tn \in DOMAIN view.tagDetails :
     s \notin view.tagDetails[tn].Uncertain /\ s \in view.tagDetails[tn].Matches}

\* StreamContext.AllConverters: for every tag of the snapshot that the stream
\* has, the converters of c.v.mgr.tags[tn], read from the manager's tag map
\* without going through the manager's goroutine; a tag deleted since the
\* fetch reads as nil and tag.converters panics
AllConvertersPanics(view, s, mgrTags) ==
  \E tn \in DOMAIN view.tagDetails : HasTag(view, tn, s) /\ tn \notin DOMAIN mgrTags

AllConverters(view, s, mgrTags) ==
  UNION {Range(mgrTags[tn].converters) :
           tn \in {x \in DOMAIN view.tagDetails : HasTag(view, x, s)}}

\* a client asks a View that holds a snapshot about one of its streams
CallHasTag ==
  /\ Running
  /\ nCalls < MaxCalls
  /\ \E v \in DOMAIN views, name \in TagNames :
       \E s \in ViewStreams(views[v]) :
          call' = [op |-> "HasTag", view |-> v, stream |-> s, name |-> name,
                   result |-> HasTag(views[v], name, s)]
  /\ nCalls' = nCalls + 1
  /\ ret' = ""
  /\ UNCHANGED <<mvars, views, nPcaps, monitor, filter, cachefile>>

CallAllTags ==
  /\ Running
  /\ nCalls < MaxCalls
  /\ \E v \in DOMAIN views :
       \E s \in ViewStreams(views[v]) :
          call' = [op |-> "AllTags", view |-> v, stream |-> s,
                   result |-> AllTags(views[v], s)]
  /\ nCalls' = nCalls + 1
  /\ ret' = ""
  /\ UNCHANGED <<mvars, views, nPcaps, monitor, filter, cachefile>>

CallAllConverters ==
  /\ Running
  /\ nCalls < MaxCalls
  /\ \E v \in DOMAIN views :
       \E s \in ViewStreams(views[v]) :
          IF AllConvertersPanics(views[v], s, tags)
          THEN /\ call' = [op |-> "AllConverters", view |-> v, stream |-> s, result |-> {}]
               /\ ret' = "panic"
          ELSE /\ call' = [op |-> "AllConverters", view |-> v, stream |-> s,
                           result |-> AllConverters(views[v], s, tags)]
               /\ ret' = ""
  /\ nCalls' = nCalls + 1
  /\ UNCHANGED <<mvars, views, nPcaps, monitor, filter, cachefile>>

\* --------------------------------------------------------------- Filter
\* capacity of the channel filter.streams
streamsCapacity == 100

\* the tags attached to filters
FilterTags == {"tag/a"}

\* NewFilter.  streams is the number of streams in the channel filter.streams
\* and closed says that the channel is closed; process is the state of
\* filter.cmd: "none" (cmd.Process is nil), "running", or "reaped" (killed or
\* exited and waited for); running says that the goroutine of startFilter is
\* in its loop; blocked is the number of EnqueueStream callers waiting in the
\* channel send; panic is the runtime error that stopped the program
NewFilter ==
  [streams |-> 0, closed |-> FALSE, attachedTags |-> <<>>, process |-> "none",
   running |-> FALSE, invalidState |-> FALSE, blocked |-> 0, enqueued |-> 0, panic |-> "",
   availableStreams |-> {}, fidx |-> <<>>]

\* Filter.IsRunning
IsRunning(f) == f.process = "running"

\* the goroutine of startFilter returns: the deferred cmd.Wait and
\* Process.Kill run, and the process has exited or is still being waited for
startFilterReturns(f) ==
  {[f EXCEPT !.running = FALSE]}
    \cup (IF f.process = "running" THEN {[f EXCEPT !.running = FALSE, !.process = "reaped"]} ELSE {})

\* Filter.startFilterIfNeeded: `go fltr.startFilter()`.  A cmd whose process
\* was started before gives no pipes and startFilter returns at once; else
\* the process starts and the goroutine enters its loop.
startFilterIfNeeded(f) ==
  IF IsRunning(f) THEN f
  ELSE IF f.attachedTags = <<>> THEN f
  ELSE IF f.process # "none" THEN f
  ELSE [f EXCEPT !.process = "running", !.running = TRUE, !.invalidState = FALSE]

\* close(filter.streams): closing a closed channel panics, and so does every
\* send that is waiting on the channel
closeStreams(f) ==
  IF f.closed THEN [f EXCEPT !.panic = "close of closed channel"]
  ELSE IF f.blocked > 0 THEN [f EXCEPT !.closed = TRUE, !.panic = "send on closed channel"]
  ELSE [f EXCEPT !.closed = TRUE]

\* Filter.KillProcess; Process.Kill fails on a process that was waited for
KillProcessError(f) == IF f.process = "reaped" THEN "could not kill filter" ELSE ""

KillProcess(f) ==
  IF KillProcessError(f) # "" THEN f
  ELSE closeStreams(IF f.process = "running" THEN [f EXCEPT !.process = "reaped"] ELSE f)

\* Filter.AttachTag
AttachTag ==
  /\ filter.panic = ""
  /\ Len(filter.attachedTags) < MaxAttached
  /\ \E tag \in FilterTags :
       filter' = startFilterIfNeeded([filter EXCEPT !.attachedTags = Append(@, tag)])
  /\ UNCHANGED <<mvars, views, nPcaps, monitor, cvars, ret>>

\* Filter.DetachTag, also of a tag that is not attached
DetachTag ==
  /\ filter.panic = ""
  /\ \E tag \in FilterTags :
       LET f1 == IF tag \in Range(filter.attachedTags)
                 THEN [filter EXCEPT !.attachedTags = RemoveAt(@, FirstIndexOf(@, tag))]
                 ELSE filter
       IN IF f1.attachedTags = <<>>
          THEN filter' = KillProcess(f1) /\ ret' = KillProcessError(f1)
          ELSE filter' = f1 /\ ret' = ""
  /\ UNCHANGED <<mvars, views, nPcaps, monitor, cvars>>

\* Filter.RestartProcess: a new channel and a new cmd replace the old ones
RestartProcess ==
  /\ filter.panic = ""
  /\ IF KillProcessError(filter) # ""
     THEN filter' = filter /\ ret' = KillProcessError(filter)
     ELSE LET f1 == KillProcess(filter)
          IN /\ filter' = IF f1.panic # "" THEN f1
                           ELSE startFilterIfNeeded(
                                  [f1 EXCEPT !.streams = 0, !.closed = FALSE, !.blocked = 0,
                                             !.process = "none", !.running = FALSE])
             /\ ret' = ""
  /\ UNCHANGED <<mvars, views, nPcaps, monitor, cvars>>

\* Filter.EnqueueStream: the send goes through when the channel has room,
\* blocks the caller when it is full and panics when it is closed
EnqueueStream ==
  /\ filter.panic = ""
  /\ filter.enqueued < MaxEnqueues
  /\ filter' = IF filter.closed
                THEN [filter EXCEPT !.panic = "send on closed channel", !.enqueued = @ + 1]
                ELSE IF filter.streams < streamsCapacity
                THEN [filter EXCEPT !.streams = @ + 1, !.enqueued = @ + 1]
                ELSE [filter EXCEPT !.blocked = @ + 1, !.enqueued = @ + 1]
  /\ UNCHANGED <<mvars, views, nPcaps, monitor, cvars, ret>>

\* a blocked send of EnqueueStream goes through
EnqueueStreamSent ==
  /\ filter.panic = ""
  /\ filter.blocked > 0
  /\ filter.streams < streamsCapacity
  /\ filter' = [filter EXCEPT !.streams = @ + 1, !.blocked = @ - 1]
  /\ UNCHANGED <<mvars, views, nPcaps, monitor, cvars, ret>>

\* one round of the loop of startFilter over filter.streams.  In invalidState
\* the stream is dropped; a stream already processed is skipped; else the
\* stream is sent to the process, and every error (stream.Data, a write to
\* stdin, a line of stdout that does not decode) sets invalidState and
\* leaves the loop with break, which ends the goroutine.
startFilterLoop(f, outcome) ==
  LET f1 == [f EXCEPT !.streams = @ - 1]
  IN IF f.invalidState THEN {f1}
     ELSE IF outcome = "error" THEN startFilterReturns([f1 EXCEPT !.invalidState = TRUE])
     ELSE {f1}

\* the goroutine of startFilter takes the next stream, or finds the channel
\* closed and empty, which ends the loop
startFilter ==
  /\ filter.panic = ""
  /\ filter.running
  /\ IF filter.streams > 0
     THEN \E outcome \in {"processed", "already processed", "error"} :
            filter' \in startFilterLoop(filter, outcome)
     ELSE filter.closed /\ filter' \in startFilterReturns(filter)
  /\ UNCHANGED <<mvars, views, nPcaps, monitor, cvars, ret>>

\* ------------------------------------------------ converter cache file
\* A byte string (file contents, packet content) is a sequence of runs
\* [n, b] of n bytes of value b, adjacent runs holding different bytes,
\* so that records of many megabytes stay small values.
Run(n, b) == IF n = 0 THEN <<>> ELSE <<[n |-> n, b |-> b]>>

Cat(f, g) ==
  IF f = <<>> THEN g
  ELSE IF g = <<>> THEN f
  ELSE IF f[Len(f)].b = g[1].b
  THEN SubSeq(f, 1, Len(f) - 1) \o <<[n |-> f[Len(f)].n + g[1].n, b |-> g[1].b]>> \o Tail(g)
  ELSE f \o g

RECURSIVE Size(_)
Size(f) == IF f = <<>> THEN 0 ELSE f[1].n + Size(Tail(f))

RECURSIVE Take(_, _)
Take(f, k) ==
  IF k <= 0 \/ f = <<>> THEN <<>>
  ELSE IF f[1].n >= k THEN <<[n |-> k, b |-> f[1].b]>>
  ELSE <<f[1]>> \o Take(Tail(f), k - f[1].n)

RECURSIVE Drop(_, _)
Drop(f, k) ==
  IF k <= 0 \/ f = <<>> THEN f
  ELSE IF f[1].n > k THEN <<[n |-> f[1].n - k, b |-> f[1].b]>> \o Tail(f)
  ELSE Drop(Tail(f), k - f[1].n)

\* os.File.Truncate: cuts the file or extends it with zero bytes
Truncate(f, n) == IF Size(f) >= n THEN Take(f, n) ELSE Cat(f, Run(n - Size(f), 0))

\* os.File.Write of g at offset p: a write past the end leaves a hole of zeros
WriteAt(f, p, g) ==
  IF g = <<>> THEN f
  ELSE LET h == IF Size(f) < p THEN Truncate(f, p) ELSE f
       IN Cat(Cat(Take(h, p), g), Drop(h, p + Size(g)))

\* io.NewSectionReader(file, off, n)
Section(f, off, n) == Take(Drop(f, off), n)

DirectionClientToServer == "c2s"
DirectionServerToClient == "s2c"
Reverse(d) == IF d = DirectionClientToServer THEN DirectionServerToClient
              ELSE DirectionClientToServer

headerSize == 8
cleanupMinFreeSize == 16 * 1024 * 1024

\* binary.Write of converterStreamSection: the stream id as 8 little-endian bytes
Header(streamID) == Cat(Run(1, streamID), Run(headerSize - 1, 0))

\* readVarInt on the bytes of r from position p: 7 bits per byte, most
\* significant group first, the last byte below 0x80
RECURSIVE readVarIntFrom(_, _, _, _)
readVarIntFrom(r, p, result, bytes) ==
  LET rest == Drop(r, p) IN
  IF rest = <<>> THEN [err |-> "EOF", v |-> 0, n |-> 0]
  ELSE LET b == rest[1].b
           res == result * 128 + (b % 128)
       IN IF b < 128 THEN [err |-> "", v |-> res, n |-> bytes + 1]
          ELSE readVarIntFrom(r, p + 1, res, bytes + 1)

readVarInt(r, p) == readVarIntFrom(r, p, 0, 0)

\* the varint SetData writes for a chunk size
RECURSIVE putVarIntHigh(_)
putVarIntHigh(sz) ==
  IF sz = 0 THEN <<>> ELSE Cat(putVarIntHigh(sz \div 128), Run(1, 128 + (sz % 128)))

putVarInt(sz) == Cat(putVarIntHigh(sz \div 128), Run(1, sz % 128))

NewCacheFile ==
  [file |-> <<>>, pos |-> 0, fileSize |-> 0, freeSize |-> 0, freeStart |-> 0,
   streamInfos |-> EmptyMap]

\* cacheFile.Reset: Truncate does not move the file pointer
Reset(cf) ==
  [cf EXCEPT !.file = <<>>, !.streamInfos = EmptyMap, !.freeSize = 0, !.fileSize = 0,
             !.freeStart = 0]

Contains(cf, streamID) == streamID \in DOMAIN cf.streamInfos

StreamCount2(cf) == Cardinality(DOMAIN cf.streamInfos)

\* the chunk size loop of Data on the section r.  A run of more than 16
\* equal bytes b in 1..127 is that many sizes b: when sizes and chunks
\* together exceed the section, the loop or a ReadFull after it ends in an
\* error whatever follows the run.
RECURSIVE readSizes(_, _, _, _, _)
readSizes(r, p, prevWasZero, direction, dataSizes) ==
  LET rest == Drop(r, p)
      sz == readVarInt(r, p)
  IN IF rest # <<>> /\ rest[1].b \in 1 .. 127 /\ rest[1].n > 16
        /\ rest[1].n * (rest[1].b + 1) > Size(r)
     THEN [err |-> "EOF", p |-> p, dataSizes |-> dataSizes]
     ELSE IF sz.err # "" THEN [err |-> sz.err, p |-> p, dataSizes |-> dataSizes]
     ELSE IF sz.v = 0 /\ prevWasZero THEN [err |-> "", p |-> p + sz.n, dataSizes |-> dataSizes]
     ELSE readSizes(r, p + sz.n, sz.v = 0, Reverse(direction),
                    Append(dataSizes, [Size |-> sz.v, Direction |-> direction]))

\* the loop of Data that splits clientData and serverData into chunks
RECURSIVE splitChunks(_, _, _)
splitChunks(dataSizes, clientData, serverData) ==
  IF dataSizes = <<>> THEN <<>>
  ELSE LET ds == dataSizes[1] IN
       IF ds.Size = 0 THEN splitChunks(Tail(dataSizes), clientData, serverData)
       ELSE IF ds.Direction = DirectionClientToServer
       THEN <<[Direction |-> ds.Direction, Content |-> Take(clientData, ds.Size)]>>
            \o splitChunks(Tail(dataSizes), Drop(clientData, ds.Size), serverData)
       ELSE <<[Direction |-> ds.Direction, Content |-> Take(serverData, ds.Size)]>>
            \o splitChunks(Tail(dataSizes), clientData, Drop(serverData, ds.Size))

RECURSIVE bytesOf(_, _)
bytesOf(dataSizes, direction) ==
  IF dataSizes = <<>> THEN 0
  ELSE (IF dataSizes[1].Direction = direction THEN dataSizes[1].Size ELSE 0)
       + bytesOf(Tail(dataSizes), direction)

NoData == [err |-> "", data |-> <<>>, clientBytes |-> 0, serverBytes |-> 0]

Data(cf, streamID) ==
  IF streamID \notin DOMAIN cf.streamInfos THEN NoData
  ELSE LET info == cf.streamInfos[streamID]
           r == Section(cf.file, info.offset, info.size)
           s == readSizes(r, 0, FALSE, DirectionClientToServer, <<>>)
           c == bytesOf(s.dataSizes, DirectionClientToServer)
           d == bytesOf(s.dataSizes, DirectionServerToClient)
       IN IF s.err # "" THEN [NoData EXCEPT !.err = s.err]
          ELSE IF Size(r) - s.p < c + d THEN [NoData EXCEPT !.err = "unexpected EOF"]
          ELSE [err |-> "",
                data |-> splitChunks(s.dataSizes, Take(Drop(r, s.p), c),
                                     Take(Drop(r, s.p + c), d)),
                clientBytes |-> c, serverBytes |-> d]

\* a chunk size loop of DataForSearch that keeps the direction after a zero size
RECURSIVE searchSizesSameDirection(_, _, _, _, _)
searchSizesSameDirection(r, p, prevWasZero, direction, dataSizes) ==
  LET rest == Drop(r, p)
      sz == readVarInt(r, p)
      last == dataSizes[Len(dataSizes)]
  IN IF rest # <<>> /\ rest[1].b \in 1 .. 127 /\ rest[1].n > 16
        /\ rest[1].n * (rest[1].b + 1) > Size(r)
     THEN [err |-> "EOF", p |-> p, dataSizes |-> dataSizes]
     ELSE IF sz.err # "" THEN [err |-> sz.err, p |-> p, dataSizes |-> dataSizes]
     ELSE IF sz.v = 0
     THEN IF prevWasZero THEN [err |-> "", p |-> p + sz.n, dataSizes |-> dataSizes]
          ELSE searchSizesSameDirection(r, p + sz.n, TRUE, direction, dataSizes)
     ELSE searchSizesSameDirection(r, p + sz.n, FALSE, Reverse(direction),
            Append(dataSizes,
                   IF direction = DirectionClientToServer
                   THEN <<last[1] + sz.v, last[2]>> ELSE <<last[1], last[2] + sz.v>>))

\* the chunk size loop of DataForSearch on the section r: dataSizes holds the
\* cumulative <<client, server>> byte counts, a zero size only turns the
\* direction.  Runs of equal bytes are read as in readSizes.
RECURSIVE searchSizes(_, _, _, _, _)
searchSizes(r, p, prevWasZero, direction, dataSizes) ==
  LET rest == Drop(r, p)
      sz == readVarInt(r, p)
      last == dataSizes[Len(dataSizes)]
  IN IF rest # <<>> /\ rest[1].b \in 1 .. 127 /\ rest[1].n > 16
        /\ rest[1].n * (rest[1].b + 1) > Size(r)
     THEN [err |-> "EOF", p |-> p, dataSizes |-> dataSizes]
     ELSE IF sz.err # "" THEN [err |-> sz.err, p |-> p, dataSizes |-> dataSizes]
     ELSE IF sz.v = 0
     THEN IF prevWasZero THEN [err |-> "", p |-> p + sz.n, dataSizes |-> dataSizes]
          ELSE searchSizes(r, p + sz.n, TRUE, Reverse(direction), dataSizes)
     ELSE searchSizes(r, p + sz.n, FALSE, Reverse(direction),
            Append(dataSizes,
                   IF direction = DirectionClientToServer
                   THEN <<last[1] + sz.v, last[2]>> ELSE <<last[1], last[2] + sz.v>>))

NoSearchData ==
  [err |-> "", data |-> <<<<>>, <<>>>>, dataSizes |-> <<>>, clientBytes |-> 0, serverBytes |-> 0]

DataForSearch(cf, streamID) ==
  IF streamID \notin DOMAIN cf.streamInfos THEN NoSearchData
  ELSE LET info == cf.streamInfos[streamID]
           r == Section(cf.file, info.offset, info.size)
           s == searchSizes(r, 0, FALSE, DirectionClientToServer, <<<<0, 0>>>>)
           last == s.dataSizes[Len(s.dataSizes)]
           c == last[1]
           d == last[2]
       IN IF s.err # "" THEN [NoSearchData EXCEPT !.err = s.err]
          ELSE IF Size(r) - s.p < c + d THEN [NoSearchData EXCEPT !.err = "unexpected EOF"]
          ELSE [err |-> "",
                data |-> <<Take(Drop(r, s.p), c), Take(Drop(r, s.p + c), d)>>,
                dataSizes |-> s.dataSizes, clientBytes |-> c, serverBytes |-> d]

\* the loop of the cleanup branch that sums one record's chunk sizes from
\* position p of r.  A run of equal bytes b in 1..127 is that many sizes b.
RECURSIVE skipSizes(_, _, _, _)
skipSizes(r, p, nZeros, dataSize) ==
  LET rest == Drop(r, p)
      sz == readVarInt(r, p)
  IN IF nZeros = 2 THEN [err |-> "", p |-> p, dataSize |-> dataSize]
     ELSE IF rest # <<>> /\ rest[1].b \in 1 .. 127
     THEN skipSizes(r, p + rest[1].n, 0, dataSize + rest[1].n * rest[1].b)
     ELSE IF sz.err # "" THEN [err |-> sz.err, p |-> p, dataSize |-> dataSize]
     ELSE skipSizes(r, p + sz.n, IF sz.v # 0 THEN 0 ELSE nZeros + 1, dataSize + sz.v)

\* the cleanup loop of SetData over the section r from position p.  The
\* entry of streamID was deleted before the loop, so the lookup
\* streamInfos[streamID] gives offset 0, which no position equals: no record
\* is copied.  Ten zero bytes are a header and an empty record: a run of
\* zeros is passed ten bytes at a time.
RECURSIVE cleanupScan(_, _)
cleanupScan(r, p) ==
  LET rest == Drop(r, p) IN
  IF rest = <<>> THEN ""
  ELSE IF Size(rest) < headerSize THEN "unexpected EOF"
  ELSE IF rest[1].b = 0 /\ rest[1].n >= 2 * (headerSize + 2)
  THEN cleanupScan(r, p + (headerSize + 2) * ((rest[1].n \div (headerSize + 2)) - 1))
  ELSE LET s == skipSizes(r, p + headerSize, 0, 0)
       IN IF s.err # "" THEN s.err
          ELSE IF Size(r) - s.p < s.dataSize THEN "EOF"
          ELSE cleanupScan(r, s.p + s.dataSize)

\* the chunk sizes SetData writes for the packets, wantDir being the
\* direction the next size stands for
RECURSIVE chunkSizes(_, _)
chunkSizes(convertedPackets, wantDir) ==
  IF convertedPackets = <<>> THEN <<>>
  ELSE LET pkt == convertedPackets[1]
           skip == pkt.Direction # wantDir
           dir == IF skip THEN Reverse(wantDir) ELSE wantDir
       IN Cat(Cat(IF skip THEN Run(1, 0) ELSE <<>>, putVarInt(Size(pkt.Content))),
              chunkSizes(Tail(convertedPackets), Reverse(dir)))

RECURSIVE chunkData(_, _)
chunkData(convertedPackets, direction) ==
  IF convertedPackets = <<>> THEN <<>>
  ELSE Cat(IF convertedPackets[1].Direction = direction THEN convertedPackets[1].Content
           ELSE <<>>,
           chunkData(Tail(convertedPackets), direction))

\* the bytes of the record SetData writes
Record(streamID, convertedPackets) ==
  Cat(Header(streamID),
      Cat(chunkSizes(convertedPackets, DirectionClientToServer),
          Cat(Run(2, 0),
              Cat(chunkData(convertedPackets, DirectionClientToServer),
                  chunkData(convertedPackets, DirectionServerToClient)))))

\* whether SetData for streamID enters the cleanup branch
cleanupNeeded(cf, streamID) ==
  /\ streamID \in DOMAIN cf.streamInfos
  /\ LET freeSize == cf.freeSize + cf.streamInfos[streamID].size + headerSize
     IN freeSize >= cleanupMinFreeSize /\ freeSize >= cf.fileSize \div 2

\* the first part of SetData: the accounting of the replaced record and the
\* cleanup; gives the cache file and the error the cleanup returned
setDataFree(cf, streamID) ==
  IF streamID \notin DOMAIN cf.streamInfos THEN [cf |-> cf, err |-> ""]
  ELSE LET info == cf.streamInfos[streamID]
           a == [cf EXCEPT !.freeSize = @ + info.size + headerSize,
                           !.freeStart = IF @ > info.offset - headerSize
                                         THEN info.offset - headerSize ELSE @]
       IN IF ~cleanupNeeded(cf, streamID) THEN [cf |-> a, err |-> ""]
          ELSE LET b == [a EXCEPT !.streamInfos = [t \in DOMAIN @ \ {streamID} |-> @[t]],
                                  !.pos = a.freeStart]
                   e == cleanupScan(Section(b.file, b.freeStart, b.fileSize - b.freeStart), 0)
               IN IF e # "" THEN [cf |-> b, err |-> e]
                  ELSE [cf |-> [b EXCEPT !.file = Truncate(@, b.fileSize), !.freeSize = 0],
                        err |-> ""]

\* cacheFile.SetData: the record is written at the file pointer
SetData(cf, streamID, convertedPackets) ==
  LET f == setDataFree(cf, streamID)
      a == f.cf
      rec == Record(streamID, convertedPackets)
      streamSize == Size(rec) - headerSize
  IN IF f.err # "" THEN f
     ELSE [cf |-> [a EXCEPT !.file = WriteAt(@, a.pos, rec),
                            !.pos = @ + Size(rec),
                            !.streamInfos = [t \in DOMAIN @ \cup {streamID} |->
                                               IF t = streamID
                                               THEN [offset |-> a.fileSize + headerSize,
                                                     size |-> streamSize]
                                               ELSE @[t]],
                            !.freeStart = IF @ = a.fileSize THEN @ + headerSize + streamSize
                                          ELSE @,
                            !.fileSize = @ + headerSize + streamSize],
           err |-> ""]

\* NewCacheFile over an existing file: the loop that reads every record from
\* position p, res holding the fields set so far.  The stream ids that key
\* res.streamInfos are kept as the 8 bytes read.
RECURSIVE readRecords(_, _, _)
readRecords(file, p, res) ==
  LET rest == Drop(file, p) IN
  IF rest = <<>>
  THEN [cf |-> [res EXCEPT !.freeStart = IF res.freeSize = 0 THEN res.fileSize ELSE @,
                           !.pos = Size(file)],
        err |-> ""]
  ELSE IF Size(rest) < headerSize THEN [cf |-> res, err |-> "failed to read stream header"]
  ELSE LET StreamID == Take(rest, headerSize)
           s == skipSizes(file, p + headerSize, 0, 0)
           lengthSize == s.p - (p + headerSize)
           known == StreamID \in DOMAIN res.streamInfos
           info == res.streamInfos[StreamID]
           a == IF known
                THEN [res EXCEPT !.freeStart = IF res.freeSize = 0 \/ @ > info.offset - headerSize
                                              THEN info.offset - headerSize ELSE @,
                                 !.freeSize = @ + headerSize + info.size]
                ELSE res
           b == [a EXCEPT !.fileSize = @ + headerSize,
                          !.streamInfos = [t \in DOMAIN @ \cup {StreamID} |->
                                             IF t = StreamID
                                             THEN [offset |-> res.fileSize + headerSize,
                                                   size |-> lengthSize + s.dataSize]
                                             ELSE @[t]]]
       IN IF s.err # "" THEN [cf |-> res, err |-> "failed to read varint"]
          ELSE IF Size(file) - s.p < s.dataSize THEN [cf |-> b, err |-> "failed to discard"]
          ELSE readRecords(file, s.p + s.dataSize,
                           [b EXCEPT !.fileSize = @ + lengthSize + s.dataSize])

NewCacheFileOver(file) ==
  readRecords(file, 0, [file |-> file, pos |-> 0, fileSize |-> 0, freeSize |-> 0,
                        freeStart |-> 0, streamInfos |-> <<>>])

\* --- the calls made on the cache file
CacheStreamIDs == {1, 2}
Blob == Run(cleanupMinFreeSize, 3)
Pkt(direction, content) == [Direction |-> direction, Content |-> content]
PacketLists ==
  {<<>>,
   <<Pkt(DirectionClientToServer, Run(1, 97))>>,
   <<Pkt(DirectionServerToClient, Run(1, 98))>>,
   <<Pkt(DirectionClientToServer, Run(1, 97)), Pkt(DirectionClientToServer, Run(2, 98))>>,
   <<Pkt(DirectionClientToServer, Run(1, 97)), Pkt(DirectionServerToClient, Run(1, 98)),
     Pkt(DirectionClientToServer, Run(200, 99))>>,
   <<Pkt(DirectionClientToServer, <<>>), Pkt(DirectionClientToServer, Run(1, 97))>>,
   <<Pkt(DirectionServerToClient, Blob)>>,
   <<Pkt(DirectionClientToServer, Blob), Pkt(DirectionServerToClient, Blob)>>}

NoCall == [op |-> "", streamID |-> 0, convertedPackets |-> <<>>]

CallSetData ==
  /\ nCalls < MaxCalls
  /\ \E streamID \in CacheStreamIDs, convertedPackets \in PacketLists :
       LET r == SetData(cachefile, streamID, convertedPackets)
       IN /\ cachefile' = r.cf
          /\ ret' = r.err
          /\ call' = [op |-> "SetData", streamID |-> streamID,
                      convertedPackets |-> convertedPackets]
  /\ nCalls' = nCalls + 1
  /\ UNCHANGED <<mvars, views, nPcaps, monitor, filter>>

CallReset ==
  /\ nCalls < MaxCalls
  /\ cachefile' = Reset(cachefile)
  /\ ret' = ""
  /\ call' = [NoCall EXCEPT !.op = "Reset"]
  /\ nCalls' = nCalls + 1
  /\ UNCHANGED <<mvars, views, nPcaps, monitor, filter>>

\* ------------------------------------------------ filter index file (.fidx)
\* The file is the sequence of its stream sections: StreamID, DataSize and
\* the DataSize bytes that follow the 16-byte section header.
\* ^uint64(0): all 64 bits set, written here as the signed value of these bits
InvalidStreamID == -1
filterStreamSectionSize == 16
FidxStreamIDs == 0 .. MaxStreamID
FidxPackets == {<<>>, <<Pkt(DirectionServerToClient, Run(1, 98))>>}

\* Writer.AppendStream: the section the writer appends for the packets
filterStreamSection(streamID, filteredPackets) ==
  LET segmentation == Cat(chunkSizes(filteredPackets, DirectionClientToServer), Run(2, 0))
      dataSize == Size(chunkData(filteredPackets, DirectionClientToServer))
                  + Size(chunkData(filteredPackets, DirectionServerToClient))
  IN [StreamID |-> streamID, DataSize |-> dataSize + Size(segmentation)]

\* NewReader: the loop over the sections of the file from section k at
\* position pos; gives containedStreamIds (stream id -> position of its data)
RECURSIVE readSections(_, _, _, _)
readSections(file, k, pos, contained) ==
  IF k > Len(file) THEN contained
  ELSE LET p == pos + filterStreamSectionSize
           c == IF file[k].StreamID # InvalidStreamID
                THEN [t \in DOMAIN contained \cup {file[k].StreamID} |->
                        IF t = file[k].StreamID THEN p ELSE contained[t]]
                ELSE contained
       IN readSections(file, k + 1, p + file[k].DataSize, c)

NewReader(file) == [containedStreamIds |-> readSections(file, 1, 0, EmptyMap)]

\* Reader.Streams: a slice of len(containedStreamIds) zeros whose element 0
\* is overwritten by every key of the map (the index i of the loop is never
\* advanced), so that it ends as the key the map iteration gave last; gives
\* the sets of elements the slice can hold
ReaderStreams(r) ==
  LET K == DOMAIN r.containedStreamIds
  IN IF K = {} THEN {{}}
     ELSE {{k} \cup (IF Cardinality(K) > 1 THEN {0} ELSE {}) : k \in K}

\* Filter.HasStream
HasStream(f, streamID) == streamID \in f.availableStreams

\* Filter.appendStream after the filter process answered for a stream
appendStream ==
  /\ filter.panic = ""
  /\ Len(filter.fidx) < MaxRecords
  /\ \E streamID \in FidxStreamIDs, filteredPackets \in FidxPackets :
       filter' = [filter EXCEPT !.fidx = Append(@, filterStreamSection(streamID, filteredPackets)),
                                !.availableStreams = @ \cup {streamID}]
  /\ UNCHANGED <<mvars, views, nPcaps, monitor, cvars, ret>>

\* the program is started again: NewFilter over the existing .fidx file
NewFilterOverFile ==
  /\ filter.fidx # <<>>
  /\ \E ids \in ReaderStreams(NewReader(filter.fidx)) :
       filter' = [NewFilter EXCEPT !.fidx = filter.fidx, !.availableStreams = ids]
  /\ UNCHANGED <<mvars, views, nPcaps, monitor, cvars, ret>>

\* ---------------------------------------------------------- specifications
\* The state New() returns over an empty index directory, a converter
\* directory holding the executables convs and a state file holding the tags
\* defs (name -> definition) with the converters attach (name -> names)
Empty ==
  [indexes |-> <<>>, usedIndexes |-> [i \in IdxIds |-> 0], nStreams |-> 0,
   nextStreamID |-> 0, nUnmergeableIndexes |-> 0, allStreams |-> {},
   mergeJobRunning |-> FALSE, taggingJobRunning |-> FALSE, converterJobRunning |-> FALSE,
   importJobs |-> <<>>, updatedStreamsDuringTaggingJob |-> {},
   addedStreamsDuringTaggingJob |-> {}, streamsToConvert |-> EmptyMap, tags |-> EmptyMap,
   converters |-> {}, cache |-> [c \in ConverterNames |-> {}], jobs |-> {},
   idx |-> [i \in IdxIds |-> NoStreams], files |-> {}]

\* ------------------------------------------- startMonitoringConverters
\* The watcher goroutine receives the events of the converter directory.  It
\* logs each event, sends a remove closure for a Remove event (it blocks in
\* the send until the scheduler receives) and keeps one timer per path for
\* Create and Write events.  A timer that fires leaves the map and sends the
\* closure made when the timer was created, which holds the event of that
\* moment.  The log also records the closures the scheduler has run, with the
\* positions of the log they cover.
MonitorPaths == {"c1", "c2"}
Ops == {"Create", "Write", "Remove"}

NewMonitor(present) == [present |-> present, timers |-> <<>>, sends |-> {}, log |-> <<>>]

LogEntry(kind, op, path, first, last, did) ==
  [kind |-> kind, op |-> op, path |-> path, first |-> first, last |-> last, did |-> did]

EventsLogged == Cardinality({i \in DOMAIN monitor.log : monitor.log[i].kind = "event"})

WatcherEvent ==
  /\ Running
  /\ EventsLogged < MaxEvents
  /\ \A s \in monitor.sends : s.kind # "remove"
  /\ \E path \in MonitorPaths, op \in Ops :
       /\ (op = "Create") = (path \notin monitor.present)
       /\ LET i == Len(monitor.log) + 1
              e == LogEntry("event", op, path, i, i, {})
          IN monitor' =
               [monitor EXCEPT
                  !.present = IF op = "Create" THEN @ \cup {path}
                              ELSE IF op = "Remove" THEN @ \ {path} ELSE @,
                  !.log = Append(@, e),
                  !.sends = IF op = "Remove" THEN @ \cup {[e EXCEPT !.kind = "remove"]} ELSE @,
                  !.timers = IF op # "Remove" /\ path \notin DOMAIN @
                             THEN [x \in DOMAIN @ \cup {path} |-> IF x = path THEN e ELSE @[x]]
                             ELSE @]
  /\ UNCHANGED <<mvars, views, nPcaps, filter, cvars, ret>>

\* the quiet time of a path has passed
TimerFire ==
  /\ Running
  /\ \E path \in DOMAIN monitor.timers :
       LET e == monitor.timers[path]
       IN monitor' =
            [monitor EXCEPT
               !.timers = [x \in DOMAIN @ \ {path} |-> @[x]],
               !.sends = @ \cup {[e EXCEPT !.kind = "debounced", !.last = Len(monitor.log)]}]
  /\ UNCHANGED <<mvars, views, nPcaps, filter, cvars, ret>>

\* the calls a debounced closure makes, from the event it holds
debouncedCalls(op) ==
  (IF op = "Create" THEN {"add"} ELSE {}) \cup (IF op = "Write" THEN {"restart"} ELSE {})

\* the scheduler receives a closure of the monitor and runs it
RunMonitorJob ==
  /\ Running
  /\ \E s \in monitor.sends :
       /\ monitor' = [monitor EXCEPT
                        !.sends = @ \ {s},
                        !.log = Append(@, [s EXCEPT !.kind = "job",
                                                    !.did = IF s.kind = "remove" THEN {"remove"}
                                                            ELSE debouncedCalls(s.op)])]
       /\ IF s.kind = "remove"
          THEN IF s.path \in converters
               THEN Commit(removeConverter(M, s.path)) /\ ret' = ""
               ELSE UNCHANGED mvars /\ ret' = "converter does not exist"
          ELSE IF s.op = "Create"
          THEN IF s.path \notin monitor.present
               THEN UNCHANGED mvars /\ ret' = "converter is not executable"
               ELSE IF s.path \in converters
               THEN UNCHANGED mvars /\ ret' = "converter already exists"
               ELSE Commit(addConverter(M, s.path)) /\ ret' = ""
          ELSE IF s.path \in converters
               THEN (\E m \in restartConverterProcess(M, s.path) : Commit(m)) /\ ret' = ""
               ELSE IF s.path \notin monitor.present
               THEN UNCHANGED mvars /\ ret' = "converter is not executable"
               ELSE Commit(addConverter(M, s.path)) /\ ret' = "panic"
  /\ UNCHANGED <<views, nPcaps, filter, cvars>>

RECURSIVE addConverters(_, _)
addConverters(m, convs) ==
  IF convs = {} THEN m
  ELSE LET c == CHOOSE x \in convs : TRUE IN addConverters(addConverter(m, c), convs \ {c})

RECURSIVE loadAttach(_, _, _)
loadAttach(S, attach, todo) ==
  IF todo = {} THEN S
  ELSE LET tn == CHOOSE x \in todo : TRUE
           one(m) == {r[1] : r \in attachLoop(m, tn, attach[tn], {})}
       IN loadAttach(Bind(S, one), attach, todo \ {tn})

\* New reading the index directory: every index found is appended, counted
\* and locked; the stream ids below nextStreamID form allStreams
RECURSIVE loadIndexes(_, _)
loadIndexes(m, stored) ==
  IF stored = <<>> THEN m
  ELSE LET i == Len(m.indexes) + 1
           content == Head(stored)
           ids == {s \in Streams : content[s] > 0}
           next == IF ids = {} THEN 0 ELSE Max(ids) + 1
           m1 == [m EXCEPT !.idx[i] = content, !.files = @ \cup {i},
                           !.indexes = Append(@, i),
                           !.nStreams = @ + Cardinality(ids),
                           !.nextStreamID = IF @ < next THEN next ELSE @]
       IN loadIndexes(m1, Tail(stored))

NewWith(stored, defs, attach, convs) ==
  LET l == loadIndexes(addConverters(Empty, convs), stored)
      m0 == [lock(l, l.indexes) EXCEPT !.allStreams = 0 .. (l.nextStreamID - 1)]
      m1 == [m0 EXCEPT !.tags = [tn \in DOMAIN defs |->
                                   IF isMark(tn) THEN [NewTag(defs[tn]) EXCEPT !.Matches = defs[tn].ids]
                                   ELSE [NewTag(defs[tn]) EXCEPT !.Uncertain = m0.allStreams]]]
      S == loadAttach({m1}, attach, DOMAIN attach)
  IN {startMergeJobIfNeeded(x) : x \in Bind(S, startTaggingJobIfNeeded)}

\* New over an empty index directory
New(defs, attach, convs) == NewWith(<<>>, defs, attach, convs)

InitFrom(m) ==
  /\ indexes = m.indexes
  /\ usedIndexes = m.usedIndexes
  /\ nStreams = m.nStreams
  /\ nextStreamID = m.nextStreamID
  /\ nUnmergeableIndexes = m.nUnmergeableIndexes
  /\ allStreams = m.allStreams
  /\ mergeJobRunning = m.mergeJobRunning
  /\ taggingJobRunning = m.taggingJobRunning
  /\ converterJobRunning = m.converterJobRunning
  /\ importJobs = m.importJobs
  /\ updatedStreamsDuringTaggingJob = m.updatedStreamsDuringTaggingJob
  /\ addedStreamsDuringTaggingJob = m.addedStreamsDuringTaggingJob
  /\ streamsToConvert = m.streamsToConvert
  /\ tags = m.tags
  /\ converters = m.converters
  /\ cache = m.cache
  /\ jobs = m.jobs
  /\ idx = m.idx
  /\ files = m.files
  /\ views = [v \in 1 .. MaxViews |-> NewView]
  /\ nPcaps = 0
  /\ monitor = NewMonitor(m.converters)
  /\ filter = NewFilter
  /\ cachefile = NewCacheFile
  /\ call = NoCall
  /\ nCalls = 0
  /\ ret = ""

\* --- index pool and job scheduling: a tag with an attached converter is
\* loaded from the state file; clients import pcaps and use Views
PoolDefs == [tn \in {"tag/a"} |-> DefOther]
PoolAttach == [tn \in {"tag/a"} |-> <<"c1">>]

InitPool == \E m \in New(PoolDefs, PoolAttach, {"c1"}) : InitFrom(m)

NextPool ==
  \/ ImportPcap
  \/ ImportDone
  \/ MergeDone
  \/ MergeFail
  \/ TagDone
  \/ ConvertDone
  \/ ViewFetch
  \/ ViewRelease
  \/ GetView

SpecPool == InitPool /\ [][NextPool]_vars

\* --- job scheduling: the same manager with one client, which holds one View
\* and calls Release once
ViewFetchFirst == ViewFetch /\ views[1].indexes = <<>>

ViewReleaseOnce == ViewRelease /\ \A v \in DOMAIN views : views'[v].releases <= 1

NextJobs ==
  \/ ImportPcap
  \/ ImportDone
  \/ MergeDone
  \/ MergeFail
  \/ TagDone
  \/ ConvertDone
  \/ ViewFetchFirst
  \/ ViewReleaseOnce

SpecJobs == InitPool /\ [][NextJobs]_vars

\* --- marks: clients import pcaps, create a mark over existing streams and a
\* tag that refers to it, edit the mark and delete tags
MarkDefs(name) ==
  IF name = "mark/m" THEN {DefID(ids) : ids \in SUBSET allStreams}
  ELSE {DefMainTag("mark/m")}

InitMarks == \E m \in New(EmptyMap, EmptyMap, {}) : InitFrom(m)

\* the clients of this specification make only calls that succeed
AddTagMarks == AddTagOf({"mark/m", "tag/b"}, MarkDefs) /\ ret' = ""

UpdateTagMarkOk == UpdateTagMark /\ ret' = ""

DelTagOk == DelTag /\ ret' = ""

NextMarks ==
  \/ ImportPcap
  \/ ImportDoneNewStreams
  \/ TagDone
  \/ AddTagMarks
  \/ UpdateTagMarkOk
  \/ DelTagOk

SpecMarks == InitMarks /\ [][NextMarks]_vars

\* --- mark edits: clients import pcaps, create a mark and a tag that refers
\* to it, and add ids to the mark or delete ids from it
NextMarkCalls ==
  \/ ImportPcap
  \/ ImportDoneNewStreams
  \/ TagDone
  \/ AddTagMarks
  \/ CallUpdateTagMark

SpecMarkCalls == InitMarks /\ [][NextMarkCalls]_vars

\* --- converter attachment: the state file holds a tag with three converters
\* and a tag with an absolute time filter; clients set the converters of
\* tags, add tags and delete tags
AttachDefs ==
  [tn \in {"tag/a", "service/s"} |-> IF tn = "tag/a" THEN DefOther ELSE DefTimeAbsolute]
AttachAttach == [tn \in {"tag/a"} |-> <<"c1", "c2", "c3">>]
AttachAddDefs(name) == IF name = "tag/b" THEN {DefData, DefMainTag("tag/a")} ELSE {DefID({})}

InitAttach == \E m \in New(AttachDefs, AttachAttach, {"c1", "c2", "c3"}) : InitFrom(m)

AddTagAttach == AddTagOf({"tag/b", "mark/m"}, AttachAddDefs)

NextAttach ==
  \/ CallUpdateTagConverters
  \/ AddTagAttach
  \/ DelTag

SpecAttach == InitAttach /\ [][NextAttach]_vars

\* --- Views: a client fetches a View and asks it about streams while pcaps are
\* imported, the tagging job runs and tags are edited and deleted (by calls
\* that succeed)
ViewDefs == [tn \in {"tag/a", "service/s"} |-> IF tn = "tag/a" THEN DefOther ELSE DefData]

InitViews == \E m \in New(ViewDefs, PoolAttach, {"c1"}) : InitFrom(m)

UpdateTagConvertersOk == UpdateTagConverters /\ ret' = ""

NextViews ==
  \/ ImportPcap
  \/ ImportDone
  \/ TagDone
  \/ ViewFetchFirst
  \/ DelTagOk
  \/ UpdateTagConvertersOk
  \/ CallHasTag
  \/ CallAllTags
  \/ CallAllConverters

SpecViews == InitViews /\ [][NextViews]_vars

\* --- conversion: the state file holds a service tag with a converter, a
\* tag with a data filter and a tag that refers to it; clients import pcaps
ConvDefs ==
  [tn \in {"service/s", "tag/a", "tag/b"} |->
     CASE tn = "service/s" -> DefOther
       [] tn = "tag/a" -> DefData
       [] OTHER -> DefMainTag("tag/a")]
ConvAttach == [tn \in {"service/s"} |-> <<"c1">>]

InitConv == \E m \in New(ConvDefs, ConvAttach, {"c1"}) : InitFrom(m)

NextConv ==
  \/ ImportPcap
  \/ ImportDone
  \/ MergeDone
  \/ TagDone
  \/ ConvertDone

SpecConv == InitConv /\ [][NextConv]_vars

\* --- conversion queue: the state file holds a tag with a data filter; clients
\* import pcaps, mark streams, attach the converter to the mark and remove the
\* converter; conversions may fail
QueueDefs == [tn \in {"tag/a"} |-> DefData]

InitQueue == \E m \in New(QueueDefs, EmptyMap, {"c1"}) : InitFrom(m)

AddTagQueue == AddTagOf({"mark/m"}, MarkDefs) /\ ret' = ""

RemoveConverterOk == RemoveConverter /\ ret' = ""

NextQueue ==
  \/ ImportPcap
  \/ ImportDoneNewStreams
  \/ TagDone
  \/ AddTagQueue
  \/ UpdateTagConvertersOk
  \/ RemoveConverterOk
  \/ ConvertDoneOrFail

SpecQueue == InitQueue /\ [][NextQueue]_vars

\* --- failing searches: the state file holds a tag with a data filter and a
\* tag with another filter; clients import pcaps and the search of a tagging
\* job may fail
FailDefs == [tn \in {"tag/a", "tag/b"} |-> IF tn = "tag/a" THEN DefData ELSE DefOther]

InitFail == \E m \in New(FailDefs, EmptyMap, {}) : InitFrom(m)

NextFail ==
  \/ ImportPcap
  \/ ImportDone
  \/ TagDone
  \/ TagFail

SpecFail == InitFail /\ [][NextFail]_vars

\* --- tag dependencies: clients add and delete tags that refer to each other
DepDefs(name) ==
  IF name = "tag/a" THEN {DefOther, DefMainTag("tag/a"), DefMainTag("tag/b"), DefSubTag("tag/b")}
  ELSE IF name = "tag/b" THEN {DefOther, DefMainTag("tag/a"), DefSubTag("service/s")}
  ELSE {DefData, DefSubTag("tag/a"), DefMainTag("tag/b")}

InitDeps == \E m \in New(EmptyMap, EmptyMap, {}) : InitFrom(m)

AddTagDeps == AddTagOf({"tag/a", "tag/b", "service/s"}, DepDefs)

NextDeps ==
  \/ AddTagDeps
  \/ DelTag

SpecDeps == InitDeps /\ [][NextDeps]_vars

\* --- cache file: a converter stores results for two streams and resets
InitCache == \E m \in New(EmptyMap, EmptyMap, {}) : InitFrom(m)

NextCache ==
  \/ CallSetData
  \/ CallReset

SpecCache == InitCache /\ [][NextCache]_vars

\* --- a Filter up to its restart: a tag is attached, streams are enqueued and
\* the worker takes them off the queue
NextFilter ==
  \/ AttachTag
  \/ EnqueueStream
  \/ EnqueueStreamSent
  \/ startFilter

InitFilter == \E m \in New(EmptyMap, EmptyMap, {}) : InitFrom(m)

SpecFilter == InitFilter /\ [][NextFilter]_vars

\* the worker goroutine and the blocked senders are scheduled
SpecFilterFair == SpecFilter /\ WF_vars(startFilter) /\ WF_vars(EnqueueStreamSent)

\* --- the life of a Filter: tags are attached and detached, the filter is
\* restarted, streams are enqueued
NextLifecycle ==
  \/ AttachTag
  \/ DetachTag
  \/ RestartProcess
  \/ EnqueueStream
  \/ EnqueueStreamSent
  \/ startFilter

SpecLifecycle == InitFilter /\ [][NextLifecycle]_vars

\* ------------------------------------------------------------------ claims
\* C1: an index is closed and its file removed never while a View that
\* fetched it has not been released: every index in the snapshot of a
\* fetched View on which Release has not been called is open.
C1_NoDeletionWhileViewHolds ==
  \A v \in DOMAIN views :
    (views[v].releaser # <<>> /\ views[v].releases = 0) =>
      \A i \in Range(views[v].releaser) : i \in files

JobsOf(kind) == {j \in jobs : j.kind = kind}

\* C9: a merge job is started only when no merge job and no tagging job is
\* running and every tag's uncertain set is empty: in the state a closure
\* leaves after starting a merge job, that job is the only merge job, no
\* tagging job is running or in flight, and no tag is uncertain.
C9_MergeOnlyWhenTagsCurrent ==
  [][\A j \in jobs' \ jobs :
       j.kind = "merge" =>
         /\ {k \in jobs' : k.kind = "merge"} = {j}
         /\ ~taggingJobRunning'
         /\ {k \in jobs' : k.kind = "tag"} = {}
         /\ \A n \in DOMAIN tags' : tags'[n].Uncertain = {}]_vars

\* a merge job is in flight over two indexes while a tag exists
C9_Witness ==
  /\ \E j \in JobsOf("merge") : Len(j.indexes) >= 2
  /\ DOMAIN tags # {}
  /\ mergeJobRunning

\* C10: at most one merge, one tagging, one conversion and one import job is
\* in flight, and each of mergeJobRunning, taggingJobRunning and
\* converterJobRunning is true exactly while a job of its kind has been
\* started and has not completed.
C10_OneJobPerKind ==
  /\ \A kind \in {"merge", "tag", "convert", "import"} : Cardinality(JobsOf(kind)) <= 1
  /\ mergeJobRunning <=> JobsOf("merge") # {}
  /\ taggingJobRunning <=> JobsOf("tag") # {}
  /\ converterJobRunning <=> JobsOf("convert") # {}

\* a tagging and a conversion job are in flight at once while no merge job
\* is running
C10_Witness ==
  /\ JobsOf("tag") # {}
  /\ JobsOf("convert") # {}
  /\ taggingJobRunning /\ converterJobRunning
  /\ ~mergeJobRunning

\* the scheduler has nothing to do: no job is in flight and no pcap is queued
Quiescent ==
  /\ jobs = {}
  /\ importJobs = <<>>
  /\ ~mergeJobRunning /\ ~taggingJobRunning /\ ~converterJobRunning

\* the streams that satisfy tag n's definition over the manager's indexes and
\* the current matches of the tags it refers to
TrueMatches(n) ==
  {s \in allStreams :
     Holds(M, indexes, tags[n].definition,
           [r \in referencedTags(tags[n]) |-> TagDetails(tags[r])], s)}

\* C2: once the scheduler is quiescent, every tag whose uncertain set is
\* empty has as matches exactly the streams that satisfy its predicate.
C2_QuiescentTagsExact ==
  Quiescent =>
    \A n \in DOMAIN tags :
      tags[n].Uncertain = {} => tags[n].Matches \cap allStreams = TrueMatches(n)

\* C3: the ids that were added to a tag's uncertain set while its tagging
\* job was in flight (they are in the manager's tag and were not in the
\* job's copy) are still in the tag's uncertain set after the job's
\* completion closure, when the closure stores the job's result.
C3_UncertainSurvivesTagging ==
  [][\A j \in jobs \ jobs' :
       (/\ j.kind = "tag"
        /\ j.name \in DOMAIN tags
        /\ j.name \in DOMAIN tags'
        /\ tags[j.name].definition = j.t.definition)
       => (tags[j.name].Uncertain \ j.t.Uncertain) \subseteq tags'[j.name].Uncertain]_vars

\* C4: a tag's uncertain set contains the uncertain set of every tag its
\* main query refers to, and is allStreams when a tag its subqueries refer
\* to is uncertain.
C4_UncertainInherited ==
  \A n \in DOMAIN tags :
    /\ \A r \in tags[n].definition.MainTags \cap DOMAIN tags :
         tags[r].Uncertain \subseteq tags[n].Uncertain
    /\ \A r \in tags[n].definition.SubQueryTags \cap DOMAIN tags :
         tags[r].Uncertain # {} => tags[n].Uncertain = allStreams

RECURSIVE Reaches(_, _, _)
Reaches(n, r, k) ==
  /\ k > 0
  /\ n \in DOMAIN tags
  /\ \/ r \in referencedTags(tags[n])
     \/ \E x \in referencedTags(tags[n]) : Reaches(x, r, k - 1)

AddTagErrors ==
  {"self reference not allowed in tags", "tag already exists", "unknown referenced tag",
   "relative times not yet supported in tags",
   "tags of type mark have to only contain an id filter"}

\* C6: no tag refers to itself, directly or through other tags, and an
\* AddTag that returns an error leaves the tag map as it was.
C6_Acyclic ==
  [][/\ \A n \in DOMAIN tags' : ~Reaches(n, n, Cardinality(TagNames))'
     /\ ret' \in AddTagErrors => tags' = tags]_vars

\* a chain of three tags exists and an AddTag of a tag that refers to itself
\* has just been refused
C6_Witness ==
  /\ \E n \in DOMAIN tags : \E r \in referencedTags(tags[n]) :
       r \in DOMAIN tags /\ referencedTags(tags[r]) # {}
  /\ ret = "self reference not allowed in tags"

\* a packet list with empty packets dropped and adjacent packets of one
\* direction merged
RECURSIVE Merged(_)
Merged(P) ==
  IF P = <<>> THEN <<>>
  ELSE LET rest == Merged(Tail(P)) IN
       IF P[1].Content = <<>> THEN rest
       ELSE IF rest # <<>> /\ rest[1].Direction = P[1].Direction
       THEN <<Pkt(P[1].Direction, Cat(P[1].Content, rest[1].Content))>> \o Tail(rest)
       ELSE <<P[1]>> \o rest

\* C7: after a SetData(s, P) that succeeded, Data(s) returns without error
\* the packets of P in order, up to merging of adjacent packets of one
\* direction, and the per-direction byte totals of P.
C7_CacheRoundTrip ==
  (call.op = "SetData" /\ ret = "") =>
    LET d == Data(cachefile, call.streamID) IN
    /\ d.err = ""
    /\ Merged(d.data) = Merged(call.convertedPackets)
    /\ d.clientBytes = Size(chunkData(call.convertedPackets, DirectionClientToServer))
    /\ d.serverBytes = Size(chunkData(call.convertedPackets, DirectionServerToClient))

\* C8: a SetData(s, P) that runs the cleanup and succeeds leaves Data(t) of
\* every other stored stream t as it was, leaves every stored stream's
\* offset right behind a header of that stream, and leaves the file no
\* larger than it was plus the record of s.
C8_CleanupPreservesData ==
  [][(/\ call'.op = "SetData"
      /\ nCalls' = nCalls + 1
      /\ ret' = ""
      /\ cleanupNeeded(cachefile, call'.streamID))
     => /\ \A t \in DOMAIN cachefile.streamInfos \ {call'.streamID} :
             Data(cachefile', t) = Data(cachefile, t)
        /\ \A t \in DOMAIN cachefile'.streamInfos :
             /\ cachefile'.streamInfos[t].offset >= headerSize
             /\ Section(cachefile'.file, cachefile'.streamInfos[t].offset - headerSize,
                        headerSize) = Header(t)
        /\ Size(cachefile'.file) <= Size(cachefile.file)
                                      + Size(Record(call'.streamID, call'.convertedPackets))]_vars

\* C11: a successful AddTag of a mark leaves the new tag with matches equal to
\* the ids of its definition and nothing uncertain; a successful AddTag of
\* another tag leaves every stream id below nextStreamID uncertain and, when
\* no tagging job was running and the referenced tags are certain, a tagging
\* job for the new tag is in flight.
C11_AddTagInitialState ==
  [][\A n \in DOMAIN tags' \ DOMAIN tags :
       LET nt == tags'[n] IN
       IF isMark(n)
       THEN nt.Matches = nt.definition.ids /\ nt.Uncertain = {}
       ELSE /\ nt.Uncertain = allStreams'
            /\ allStreams' = {s \in Streams : s < nextStreamID'}
            /\ (/\ ~taggingJobRunning
                /\ nt.Uncertain # {}
                /\ \A r \in referencedTags(nt) : tags'[r].Uncertain = {})
               => /\ taggingJobRunning'
                  /\ \E j \in jobs' \ jobs : j.kind = "tag" /\ j.name = n]_vars

\* a mark with ids and a tag whose tagging job is in flight over uncertain streams
C11_Witness ==
  /\ "mark/m" \in DOMAIN tags
  /\ tags["mark/m"].Matches # {}
  /\ \E j \in jobs : j.kind = "tag" /\ j.name = "tag/b" /\ j.t.Uncertain = allStreams
                      /\ allStreams # {} /\ j.t.Matches = {}

\* C12: every tag name a tag refers to, in its main query or in a subquery,
\* is a key of the tag map.
C12_ReferencedTagsExist ==
  \A n \in DOMAIN tags : referencedTags(tags[n]) \subseteq DOMAIN tags

\* the tagging job of a deleted tag is in flight and the mark it referred to
\* has been deleted as well
C12_Witness ==
  /\ "tag/b" \notin DOMAIN tags
  /\ "mark/m" \notin DOMAIN tags
  /\ \E j \in jobs : j.kind = "tag" /\ j.name = "tag/b" /\ referencedTags(j.t) = {"mark/m"}

\* the string id: followed by the ascending comma-separated ids
RECURSIVE idList(_)
idList(ids) ==
  IF ids = {} THEN <<>>
  ELSE LET id == Min(ids)
       IN IF ids = {id} THEN <<id>> ELSE <<id, ",">> \o idList(ids \ {id})

\* C13: a mark add or mark del on an existing mark with a non-empty list of
\* ids below nextStreamID returns no error; afterwards the matches are the
\* old matches with the ids added, or removed, nothing is uncertain and the
\* definition is id: followed by the ascending comma-separated new matches
\* (when there are any).
C13_MarkUpdate ==
  [][(/\ nCalls' = nCalls + 1
      /\ call'.op = "UpdateTag"
      /\ call'.name \in DOMAIN tags
      /\ \A s \in call'.ids : s < nextStreamID)
     => LET old == tags[call'.name].Matches
            new == IF call'.isAdd THEN old \cup call'.ids ELSE old \ call'.ids
            t == tags'[call'.name]
        IN /\ ret' = ""
           /\ t.Matches = new
           /\ t.Uncertain = {}
           /\ new # {} => t.definition.text = <<"id:">> \o idList(new)]_vars

\* C14: after a successful UpdateTag that sets the converters of a tag to the
\* names R, the converters attached to the tag are exactly R.
C14_SetConverters ==
  [][(/\ nCalls' = nCalls + 1
      /\ call'.op = "SetConverter"
      /\ ret' = "")
     => Range(tags'[call'.name].converters) = Range(call'.names)]_vars

\* C15: every tag with at least one attached converter uses no data filter and
\* no absolute or relative time filter, in its main query or a subquery, and
\* refers to no other tag.
C15_ConverterTagsSimple ==
  \A n \in DOMAIN tags :
     tags[n].converters # <<>> =>
        /\ (tags[n].definition.MainFeatures \cup tags[n].definition.SubQueryFeatures)
             \cap {FeatureFilterData, FeatureFilterTimeAbsolute, FeatureFilterTimeRelative} = {}
        /\ referencedTags(tags[n]) = {}

\* C16: an AddTag, DelTag or UpdateTag call that returns an error leaves the
\* tags (which tags there are, their definitions, matches, uncertain streams,
\* colors and converters) and the work queue of every converter as they were.
C16_ErrorLeavesTagsUnchanged ==
  [][ret' \notin {"", "panic"} => (tags' = tags /\ streamsToConvert' = streamsToConvert)]_vars

\* C17: a View that holds a snapshot answers from the snapshot alone: an
\* AllConverters call does not break, and it gives the answer that the last
\* call gave for the same stream of the same View, whatever was done to the
\* manager's tags in between.
C17_ViewAnswersFromSnapshot ==
  [][(nCalls' = nCalls + 1 /\ call'.op = "AllConverters")
     => /\ ret' # "panic"
        /\ (call.op = "AllConverters" /\ call.view = call'.view /\ call.stream = call'.stream
              /\ views'[call.view] = views[call.view])
           => call'.result = call.result]_vars

\* C18: for a stream whose bit is set in both the matches and the uncertain
\* streams of the View's copy of a tag, HasTag returns true and AllTags
\* includes the tag.
C18_HasTagCachedBit ==
  [][/\ (nCalls' = nCalls + 1 /\ call'.op = "HasTag" /\ call'.name \in DOMAIN views[call'.view].tagDetails
           /\ call'.stream \in views[call'.view].tagDetails[call'.name].Matches
           /\ call'.stream \in views[call'.view].tagDetails[call'.name].Uncertain)
        => call'.result = TRUE
     /\ (nCalls' = nCalls + 1 /\ call'.op = "AllTags")
        => \A tn \in DOMAIN views[call'.view].tagDetails :
              (/\ call'.stream \in views[call'.view].tagDetails[tn].Matches
               /\ call'.stream \in views[call'.view].tagDetails[tn].Uncertain)
              => tn \in call'.result]_vars

\* C19: every index in the snapshot of a job in flight (tagging, conversion,
\* import or merge) is open and on disk, whatever merge has completed
\* meanwhile.
C19_JobSnapshotStaysOpen ==
  \A j \in jobs : \A k \in DOMAIN j.indexes : j.indexes[k] \in files

\* C20: once the worker of a filter is in invalidState, the streams in its
\* queue are taken off the queue, and a blocked EnqueueStream goes through:
\* the queue becomes empty with no sender waiting.
C20_InvalidStateDrains ==
  [](filter.invalidState => <>(filter.streams = 0 /\ filter.blocked = 0))

\* C21: the queue of a filter is never closed twice and no stream is sent on
\* a closed queue; a filter with an attached tag whose worker met no error
\* has an open queue and a worker consuming it.
C21_FilterQueueUsable ==
  /\ filter.panic = ""
  /\ (filter.attachedTags # <<>> /\ ~filter.invalidState) => (~filter.closed /\ filter.running)

\* C22: when the completion closure of a conversion job has run and the
\* converter is still registered, every stream that was in the job's work
\* queue is in the converter's cache or queued again for the converter (in its
\* work queue or in the queue handed to its next job).
C22_QueuedStreamsNotLost ==
  [][\A j \in jobs \ jobs' :
       (j.kind = "convert" /\ j.converter \in converters') =>
          \A s \in j.streamIDs :
             \/ s \in cache'[j.converter]
             \/ s \in streamsToConvert'[j.converter]
             \/ \E n \in jobs' : n.kind = "convert" /\ n.converter = j.converter /\ s \in n.streamIDs]_vars

StoredIndexes == <<[s \in Streams |-> IF s = 0 THEN 1 ELSE 0]>>

MergeDefs == [tn \in {"tag/a"} |-> DefOther]

InitMerge == \E m \in NewWith(StoredIndexes, MergeDefs, EmptyMap, {}) : InitFrom(m)

NextMerge ==
  \/ ImportPcap
  \/ ImportDone
  \/ TagDone
  \/ MergeDone
  \/ MergeFail

SpecMerge == InitMerge /\ [][NextMerge]_vars

\* the merge job completed by this step; a failed merge may be started again
\* by its own completion, as a job equal to the one that failed
MergeJobDone(j) == j \in jobs /\ j.kind = "merge" /\ (j \notin jobs' \/ ret' = "merge failed")

\* the jobs started by this step
StartedJobs == {n \in jobs' : n \notin jobs \/ MergeJobDone(n)}

C25_UnmergeableIsResultLength ==
  [][(ret' = "" /\ \E j \in jobs : MergeJobDone(j)) => nUnmergeableIndexes' = 1 - 1]_vars

\* positions (from 0) at which startMergeJobIfNeeded may start a merge: not
\* below nUnmergeableIndexes, stream count below the sum of the later ones
MergePositions(ix, content, unmergeable) ==
  LET count(k) == Cardinality({s \in Streams : content[ix[k]][s] > 0})
  IN {i \in 0 .. (Len(ix) - 1) :
        /\ i >= unmergeable
        /\ count(i + 1) < SeqSum([k \in 1 .. (Len(ix) - i - 1) |-> count(i + 1 + k)])}

\* C26: a merge job that is started merges the indexes from position i to the
\* end, i the smallest position >= nUnmergeableIndexes whose stream count is
\* below the sum of the stream counts of the later indexes; when no job or
\* uncertain tag holds the scheduler back and no merge runs, no such
\* position exists.
C26_MergeFromSmallestPosition ==
  [][LET E == MergePositions(indexes', idx', nUnmergeableIndexes')
     IN /\ \A j \in StartedJobs :
             j.kind = "merge" => /\ E # {}
                                 /\ j.offset = Min(E)
                                 /\ j.indexes = SubSeqFrom(indexes', Min(E) + 1)
        /\ (/\ ~mergeJobRunning'
            /\ ~taggingJobRunning'
            /\ \A tn \in DOMAIN tags' : tags'[tn].Uncertain = {}) => E = {}]_vars

C26_Witness ==
  /\ nUnmergeableIndexes = 1
  /\ \E j \in jobs : j.kind = "merge" /\ j.offset = 1 /\ Len(j.indexes) = 2

\* --- invalidation: the state file holds tags of every kind; clients import
\* pcaps that add streams and update known ones
InvalidateDefs ==
  {[tn \in TagNames |-> IF tn = "tag/a" THEN a
                        ELSE IF tn = "tag/b" THEN b
                        ELSE IF tn = "mark/m" THEN DefID({})
                        ELSE DefData] :
     a \in {DefOther, DefTimeAbsolute}, b \in {DefMainTag("mark/m"), DefSubTag("tag/a")}}

InitInvalidate == \E defs \in InvalidateDefs : \E m \in New(defs, EmptyMap, {}) : InitFrom(m)

NextInvalidate ==
  \/ ImportPcap
  \/ ImportDone
  \/ TagDone

SpecInvalidate == InitInvalidate /\ [][NextInvalidate]_vars

\* what the claim says a tag's uncertain is after an import, before inheritance
InvalidatedUncertain(t, A, U) ==
  LET d == t.definition IN
  IF d.SubQueryFeatures # {} THEN allStreams'
  ELSE IF d.MainFeatures \ {FeatureFilterID} = {} THEN t.Uncertain
  ELSE t.Uncertain \cup A
       \cup (IF d.MainFeatures \cap {FeatureFilterData, FeatureFilterTimeAbsolute,
                                     FeatureFilterTimeRelative} # {} THEN U ELSE {})

C28_TaggingKeepsTagEdits ==
  [][\A j \in jobs \ jobs' :
       (j.kind = "tag" /\ ret' # "panic") =>
         IF j.name \in DOMAIN tags /\ tags[j.name].definition = j.t.definition
         THEN /\ DOMAIN tags' = DOMAIN tags
              /\ \A tn \in DOMAIN tags :
                   /\ tags'[tn].definition = tags[tn].definition
                   /\ tags'[tn].color = tags[tn].color
                   /\ tags'[tn].converters = tags[tn].converters
                   /\ tn # j.name => tags'[tn].Matches = tags[tn].Matches
         ELSE tags' = tags]_vars

\* the conversion goroutine of a started job runs; every per-stream
\* conversion returns a result or an error
SpecQueueFair == SpecQueue /\ WF_vars(ConvertDoneOrFail)

\* C29: every started conversion job eventually posts its completion: at any
\* time, later on no conversion job is running (or the scheduler has
\* stopped), or later on a conversion job posts its completion.
C29_ConversionJobCompletes ==
  \/ []<>(~converterJobRunning \/ ret = "panic")
  \/ []<><<ConvertDoneOrFail>>_vars

RECURSIVE Offsets(_, _)
Offsets(data, last) ==
  IF data = <<>> THEN <<>>
  ELSE LET n == Size(data[1].Content)
           new == IF data[1].Direction = DirectionClientToServer
                  THEN <<last[1] + n, last[2]>> ELSE <<last[1], last[2] + n>>
       IN <<new>> \o Offsets(Tail(data), new)

\* C31: for every cached stream DataForSearch agrees with Data: it fails when
\* Data fails, its client (server) bytes are the contents of Data's packets
\* of that direction in order, and its offsets are (0,0) followed by the
\* cumulative byte counts after each packet of Data.
C31_SearchDataAgrees ==
  \A s \in DOMAIN cachefile.streamInfos :
    LET d == Data(cachefile, s)
        f == DataForSearch(cachefile, s)
    IN /\ f.err = d.err
       /\ d.err = "" =>
            /\ f.data[1] = chunkData(d.data, DirectionClientToServer)
            /\ f.data[2] = chunkData(d.data, DirectionServerToClient)
            /\ f.dataSizes = <<<<0, 0>>>> \o Offsets(d.data, <<0, 0>>)
            /\ f.clientBytes = d.clientBytes
            /\ f.serverBytes = d.serverBytes

\* a cached stream whose Data has three packets, of both directions
C31_Witness ==
  \E s \in DOMAIN cachefile.streamInfos :
    LET d == Data(cachefile, s)
    IN /\ d.err = ""
       /\ Len(d.data) = 3
       /\ d.data[2].Direction = DirectionServerToClient
       /\ Len(DataForSearch(cachefile, s).dataSizes) = 4

\* C32: after a SetData(s, P) that returned nil the record of P is the last
\* Size(record) bytes of the file, fileSize is the length of the file, the
\* offset and size recorded for s are those of that record, and Data(s) reads
\* it as it would from a file holding only this record; after Reset no
\* stream is contained.
C32_LatestRecordAtEnd ==
  /\ (call.op = "SetData" /\ ret = "") =>
       LET s == call.streamID
           rec == Record(s, call.convertedPackets)
           alone == [NewCacheFile EXCEPT !.file = rec, !.fileSize = Size(rec),
                                         !.streamInfos = [t \in {s} |->
                                            [offset |-> headerSize, size |-> Size(rec) - headerSize]]]
       IN /\ cachefile.fileSize = Size(cachefile.file)
          /\ Section(cachefile.file, cachefile.fileSize - Size(rec), Size(rec)) = rec
          /\ Contains(cachefile, s)
          /\ cachefile.streamInfos[s] = [offset |-> cachefile.fileSize - Size(rec) + headerSize,
                                         size |-> Size(rec) - headerSize]
          /\ Data(cachefile, s) = Data(alone, s)
  /\ call.op = "Reset" => (StreamCount2(cachefile) = 0 /\ \A s \in CacheStreamIDs : ~Contains(cachefile, s))

\* --- filter index file: the worker appends the streams it processed and the
\* program is started again over the file
NextFidx ==
  \/ appendStream
  \/ NewFilterOverFile

SpecFidx == InitFilter /\ [][NextFidx]_vars

\* C33: a Filter created over a .fidx file reports HasStream(s) exactly for
\* the stream ids recorded in the file in sections that are not tombstones.
C33_HasStreamIsFileContent ==
  \A s \in FidxStreamIDs :
    HasStream(filter, s) <=>
      \E k \in DOMAIN filter.fidx : filter.fidx[k].StreamID = s /\ s # InvalidStreamID

\* C34: between scheduler closures allStreams is the set of the ids below
\* nextStreamID, and no closure lowers nextStreamID.
C34_AllStreamsBelowNext ==
  /\ [](allStreams = 0 .. (nextStreamID - 1))
  /\ [][nextStreamID' >= nextStreamID]_vars

\* both pcaps were imported, one import added stream 1 and the other created
\* no index
C34_Witness ==
  /\ nPcaps = 2
  /\ importJobs = <<>>
  /\ \A j \in jobs : j.kind # "import"
  /\ Len(indexes) = 2
  /\ nextStreamID = 2
  /\ allStreams = {0, 1}

\* --- every import job and every tagging job returns: weak fairness of both
\* completions, the one of TagDone with its enabling condition written out
\* (TagDone can act exactly when a tagging job is in flight)
TagJobPending == Running /\ \E j \in jobs : j.kind = "tag"

SpecInvalidateFair ==
  /\ SpecInvalidate
  /\ WF_vars(ImportDone)
  /\ ([]<>~TagJobPending \/ []<><<TagDone>>_vars)

\* C35: once the clients have stopped and every job returns, every tag's
\* uncertain set becomes and stays empty with no tagging job running, and a
\* tagging job is only ever started for a tag whose referenced tags all had
\* an empty uncertain set.
C35_TagsSettle ==
  /\ <>[](/\ ~taggingJobRunning
          /\ \A n \in DOMAIN tags : tags[n].Uncertain = {})
  /\ [](\A j \in jobs : j.kind = "tag" =>
          \A tn \in referencedTags(j.t) :
            tn \in DOMAIN j.tagDetails /\ j.tagDetails[tn].Uncertain = {})

\* tag/b refers to tag/a in a sub-query; every pcap was imported and both
\* tags were evaluated over the imported streams
C35_Witness ==
  /\ tags["tag/b"].definition = DefSubTag("tag/a")
  /\ nPcaps = MaxPcaps
  /\ importJobs = <<>>
  /\ allStreams # {}
  /\ ~taggingJobRunning
  /\ \A n \in DOMAIN tags : tags[n].Uncertain = {}

\* --- the converter directory: c1 is registered and on disk; files are
\* created, written and removed while the scheduler runs the closures
InitMonitor == \E m \in New(EmptyMap, EmptyMap, {"c1"}) : InitFrom(m)

NextMonitor ==
  \/ WatcherEvent
  \/ TimerFire
  \/ RunMonitorJob

SpecMonitor == InitMonitor /\ [][NextMonitor]_vars

\* the Create and Write events of a path that a run closure covers
BurstOps(e) ==
  {monitor.log[i].op : i \in {x \in e.first .. e.last :
                                /\ monitor.log[x].kind = "event"
                                /\ monitor.log[x].path = e.path
                                /\ monitor.log[x].op # "Remove"}}

\* C36: the debounced closure of a burst adds the converter exactly if the
\* burst held a Create and restarts it exactly if the burst held a Write, the
\* bursts of one path do not overlap, every Remove event has its remove
\* closure, and no debounced closure whose burst began before a Remove runs
\* after the remove closure of that Remove.
C36_DebouncedClosures ==
  LET log == monitor.log
      Jobs == {i \in DOMAIN log : log[i].kind = "job"}
      Debounced == {i \in Jobs : "remove" \notin log[i].did}
      Removes == {i \in Jobs : "remove" \in log[i].did}
  IN /\ \A k \in Debounced :
          /\ ("add" \in log[k].did) = ("Create" \in BurstOps(log[k]))
          /\ ("restart" \in log[k].did) = ("Write" \in BurstOps(log[k]))
          /\ \A k2 \in Debounced \ {k} :
               log[k2].path = log[k].path =>
                 log[k2].last < log[k].first \/ log[k].last < log[k2].first
          /\ \A r \in Removes :
               (log[r].path = log[k].path /\ log[k].first < log[r].first) => k < r
     /\ \A i \in DOMAIN log :
          (log[i].kind = "event" /\ log[i].op = "Remove") =>
            \/ \E s \in monitor.sends : s.kind = "remove" /\ s.first = i
            \/ \E r \in Removes : log[r].first = i

\* --- removal of converters: the state file holds tag/a with c1 attached;
\* clients import pcaps and remove the converter while jobs run
NextRemove ==
  \/ ImportPcap
  \/ ImportDone
  \/ TagDone
  \/ ConvertDone
  \/ RemoveConverterOk

SpecRemove == InitPool /\ [][NextRemove]_vars

\* C37: every converter attached to a tag is registered and has a work
\* queue, and the closure of a tagging job never reaches for the work queue
\* of a converter that was removed while the job ran.
C37_AttachedConvertersRegistered ==
  /\ [](\A tn \in DOMAIN tags : \A k \in DOMAIN tags[tn].converters :
          /\ tags[tn].converters[k] \in converters
          /\ tags[tn].converters[k] \in DOMAIN streamsToConvert)
  /\ [][TagDone => ret' # "panic"]_vars

\* every View a client fetched has been released
ViewsReleased == \A v \in DOMAIN views : views[v].releaser = <<>> \/ views[v].releases >= 1

\* C38: every index of the manager's list has a lock count of at least one,
\* no lock count is decremented below zero, and when no job is in flight and
\* every fetched View is released the lock counts add up to the number of
\* indexes and nStreams is the sum of the indexes' stream counts.
C38_LockCounts ==
  /\ \A k \in DOMAIN indexes : usedIndexes[indexes[k]] >= 1
  /\ \A i \in DOMAIN usedIndexes : usedIndexes[i] >= 0
  /\ (jobs = {} /\ ViewsReleased) =>
       /\ SumOver(usedIndexes, DOMAIN usedIndexes) = Len(indexes)
       /\ nStreams = SumOver([k \in DOMAIN indexes |-> StreamCount(M, indexes[k])], DOMAIN indexes)

\* C39: a Release of a View that was released before changes no lock count
\* and closes no index.
C39_ReleaseIdempotent ==
  [][\A v \in DOMAIN views :
       (views[v].releases >= 1 /\ views'[v].releases = views[v].releases + 1) =>
         usedIndexes' = usedIndexes /\ files' = files]_vars

\* --- a cache file that only grows: a converter stores results, none of them
\* large enough to start a cleanup, and nothing resets the file
CallSetDataAppend == CallSetData /\ ~cleanupNeeded(cachefile, call'.streamID)

NextReopen == CallSetDataAppend

SpecReopen == InitCache /\ [][NextReopen]_vars

\* the cache file NewCacheFile gives over the present file, with the stream
\* ids of the present cache file as keys
Reopened ==
  LET re == NewCacheFileOver(cachefile.file)
  IN [re.cf EXCEPT !.streamInfos =
        [t \in {x \in DOMAIN cachefile.streamInfos : Header(x) \in DOMAIN @} |-> @[Header(t)]]]

\* C40: NewCacheFile over the file that successful SetData calls without
\* cleanup have written succeeds and gives the same stream ids with the same
\* Data, fileSize equal to the length of the file, freeSize equal to the
\* size of the superseded records (the file less the records in use) and
\* freeStart at the earliest superseded record, or at the end of the file when
\* there is none, as the writing cache file has them.
C40_ReopenAgrees ==
  LET re == NewCacheFileOver(cachefile.file)
      live == SumOver([t \in DOMAIN cachefile.streamInfos |->
                         headerSize + cachefile.streamInfos[t].size],
                      DOMAIN cachefile.streamInfos)
  IN /\ re.err = ""
     /\ DOMAIN re.cf.streamInfos = {Header(t) : t \in DOMAIN cachefile.streamInfos}
     /\ \A t \in DOMAIN cachefile.streamInfos : Data(Reopened, t) = Data(cachefile, t)
     /\ re.cf.fileSize = Size(cachefile.file)
     /\ re.cf.freeSize = Size(cachefile.file) - live
     /\ re.cf.freeSize = cachefile.freeSize
     /\ re.cf.freeStart = cachefile.freeStart
     /\ re.cf.freeSize = 0 => re.cf.freeStart = Size(cachefile.file)

====
